---- MODULE Spec2Model ----
(***************************************************************************)
(* A model of the senrigan surveillance recorder: the timelapse Capture    *)
(* (internal/timelapse/capture.go), the camera manager, a video source     *)
(* with its forwarder goroutine, the JPEG framing loop of the encoder      *)
(* reader, the frame composer with its layout, the video generator, and    *)
(* the MJPEG responders that read one source's frame channel.             *)
(* Each component has its own specification over its own variables; the    *)
(* variables of the other components stay at their initial values.         *)
(***************************************************************************)
EXTENDS Integers, Sequences, FiniteSets, TLC

VARIABLES
    \* ---- timelapse.Capture ----
    frameBuffer,     \* tc.frameBuffer: sequence of combined frames (ids)
    currentVideo,    \* tc.currentVideo: NoVideo or a file name
    lastUpdate,      \* tc.lastUpdate: the clock value of the last successful flush
    tcMu,            \* holder of tc.mu: "none", "stop", "sched"
    tcStopCh,        \* TRUE once close(tc.stopCh) ran
    tcCtxDone,       \* TRUE once the ctx passed to Start is cancelled
    capPc,           \* position of the captureFrames goroutine
    capFrame,        \* the combined frame captureFrame holds while it waits for tc.mu
    schedPc,         \* position of the videoUpdateScheduler goroutine
    midnightTimer,   \* "unarmed", "armed", "fired"
    stopPc,          \* position of the caller of Capture.Stop
    startPc,         \* "idle" before Capture.Start, "done" after it returned
    today,           \* the local date of time.Now(), as a day number
    videoFiles,      \* on-disk content: day number -> frames written to that day's file
    tlNext,          \* number of combined frames composed so far
    evicted,         \* the frames captureFrame removed from a full buffer
    flushStartName,  \* tc.currentVideo as updateVideo found it, while it runs
    \* ---- camera.DefaultCameraManager ----
    videoSources,    \* m.videoSources: source id -> [type, device, status]
    mgrMu,           \* holder of m.mu: "none" or "stop"
    mgrStopCh,       \* TRUE once close(m.stopCh) ran (until Stop replaces the channel)
    mgrCtxDone,      \* TRUE once the ctx passed to Manager.Start is cancelled
    bgPc,            \* position of the backgroundScan goroutine
    mgrStartPc,      \* "idle" before Manager.Start, "done" after it returned
    mgrStopPc,       \* position of the caller of Manager.Stop
    devices,         \* what discovery.ScanDevices currently reports
    nanoClock,       \* time.Now().UnixNano(), the source of generateCameraID
    \* ---- the JPEG framing loop of V4L2Capturer/X11Capturer.StartStream ----
    stream,          \* every byte the encoder process will write to its stdout
    unread,          \* the bytes of the pipe that stdout.Read has not returned yet
    jpegBuffer,      \* the reader's frameBuffer (bytes.Buffer)
    emitted,         \* the frames sent on frameChan so far, in order
    readerPc,        \* "reading", "eof", "cancelled", "failed"
    \* ---- camera.USBCameraSource ----
    workload,          \* [frames, launches]: what the encoders and callers do at most
    srcStatus,         \* s.status
    srcSettings,       \* s.settings / the settings of s.capturer: the frame rate
    srcMu,             \* writer holding s.mu: "none", "stop", "apply"
    srcStopClosed,     \* TRUE once close(s.stopCh) ran, until stopCh is replaced
    fwdPc,             \* position of forwardFrames; "none" when no forwarder runs
    fwdItem,           \* the frame the forwarder holds
    internalFrameChan, \* s.internalFrameChan: frames (ids in emission order)
    internalErrorChan, \* len(s.internalErrorChan)
    frameChan,         \* s.frameChan, the public frame channel
    errorChan,         \* len(s.errorChan), the public error channel
    latestFrame,       \* s.latestFrame, NoFrame for nil
    encoders,          \* running encoder processes: frame rate -> how many
    blockedErrSends,   \* failed encoders blocked sending on a full internalErrorChan
    nextFrame,         \* id of the next frame an encoder emits
    launched,          \* encoder processes launched so far
    lastRecv,          \* the last frame a consumer received from frameChan
    delivered,         \* the frames ever placed on frameChan
    lastEvicted,       \* the last frame the forwarder dropped from frameChan
    snapResult,        \* what CaptureFrameForTimelapse has just returned
    srcReturned,       \* the error Start, Stop or ApplySettings has just returned
    \* ---- timelapse.FrameComposer ----
    compSources,     \* the sources ComposeFrames is given: {[ID, Name, Status, Data]}
    compMosaic,      \* what the last combineFrames drew: {[ID, Pos]}, NoMosaic before
    compFrames,      \* the keys of SourceFrames of the last CombinedFrame
    compReturned,    \* the error ComposeFrames has just returned
    layFrameCount,   \* frameCount given to calculateLayout
    layInfo,         \* the LayoutInfo calculateLayout returned, NoLayout before
    layIndex,        \* index given to calculatePosition, -1 before
    layPos,          \* the Position calculatePosition returned
    \* ---- timelapse.VideoGenerator ----
    vgVideos,        \* the video files on disk: path -> number of images encoded in it
    vgSessions,      \* session temp directories created so far
    vgSessionDirs,   \* the session directories that are on disk
    vgEncoderRuns,   \* encoder (ffmpeg) processes run so far
    vgFrames,        \* the frames argument of the last ExtendVideo
    vgReturned,      \* the error the last ExtendVideo returned
    vgQuality,       \* config.Quality
    vgCRF,           \* the string qualityToCRF returned last, NoCRF before
    \* ---- MJPEG responders of SenriganHandler ----
    received         \* the frames each responder has written to its client

captureVars == <<frameBuffer, currentVideo, lastUpdate, tcMu, tcStopCh, tcCtxDone,
                 capPc, capFrame, schedPc, midnightTimer, stopPc, startPc, today,
                 videoFiles, tlNext, evicted,
                 flushStartName>>

managerVars == <<videoSources, mgrMu, mgrStopCh, mgrCtxDone, bgPc, mgrStartPc,
                 mgrStopPc, devices, nanoClock>>

framerVars == <<stream, unread, jpegBuffer, emitted, readerPc>>

sourceVars == <<workload, srcStatus, srcSettings, srcMu, srcStopClosed, fwdPc, fwdItem,
                internalFrameChan, internalErrorChan, frameChan, errorChan,
                latestFrame, encoders, blockedErrSends, nextFrame, launched,
                lastRecv, delivered, lastEvicted, snapResult, srcReturned>>

composerVars == <<compSources, compMosaic, compFrames, compReturned,
                  layFrameCount, layInfo, layIndex, layPos>>

videoGenVars == <<vgVideos, vgSessions, vgSessionDirs, vgEncoderRuns, vgFrames,
                  vgReturned, vgQuality, vgCRF>>

responderVars == <<received>>

vars == <<captureVars, managerVars, framerVars, sourceVars, composerVars,
          videoGenVars, responderVars>>

-----------------------------------------------------------------------------
(* Bounds of the model *)

MaxFrameBuffer == 2
MaxTLFrames == 4
MaxDays == 2
MaxDevices == 2
MaxClock == 4
MaxStreamLen == 5
MaxFrames == 11
FewFrames == 1
MaxLaunches == 6
FewLaunches == 1
MaxSources == 3
MaxFrameCount == 16
MaxExtends == 2
MaxExtendFrames == 2
IntBits == 7
MaxResponders == 2
StreamedFrames == 3

\* the variables each component leaves alone
otherThanCapture ==
    <<managerVars, framerVars, sourceVars, composerVars, videoGenVars, responderVars>>
otherThanManager ==
    <<captureVars, framerVars, sourceVars, composerVars, videoGenVars, responderVars>>
otherThanFramer ==
    <<captureVars, managerVars, sourceVars, composerVars, videoGenVars, responderVars>>
otherThanSource ==
    <<captureVars, managerVars, framerVars, composerVars, videoGenVars, responderVars>>
otherThanComposer ==
    <<captureVars, managerVars, framerVars, sourceVars, videoGenVars, responderVars>>
otherThanVideoGen ==
    <<captureVars, managerVars, framerVars, sourceVars, composerVars, responderVars>>

-----------------------------------------------------------------------------
(* timelapse.Capture *)

NoVideo == <<>>

Days == 1..MaxDays

\* fmt.Sprintf("timelapse_%s.mp4", t.Format("2006-01-02"))
generateVideoFilename(day) == <<"timelapse_", day, ".mp4">>

\* the day a file name was generated for (the inverse of generateVideoFilename)
FileDay(name) == name[2]

\* (for comparison) an append that never evicts
AppendNoEvict(buf, f) == Append(buf, f)

\* append + FIFO eviction of captureFrame
AppendFrame(buf, f) ==
    LET grown == Append(buf, f)
    IN  IF Len(grown) > MaxFrameBuffer THEN Tail(grown) ELSE grown

\* the frames held by a buffer
FramesOf(buf) == {buf[i] : i \in 1..Len(buf)}

\* (for comparison) a lock that is granted whoever holds the mutex
LockAlways(holder) == TRUE

\* tc.mu.Lock() returns once nobody holds tc.mu
CanLock(holder) == holder = "none"

\* (for comparison) a truncation that keeps the newest frame
TruncateButLast(buf) == IF buf = <<>> THEN buf ELSE <<buf[Len(buf)]>>

\* tc.frameBuffer = tc.frameBuffer[:0]
Truncate(buf) == <<>>

\* (for comparison) a flush that always targets the file of the current date
TodaysVideo(name, day) == generateVideoFilename(day)

\* the file updateVideo extends: tc.currentVideo, or when that is empty the
\* name generated for the current date
FlushTarget(name, day) == IF name = NoVideo THEN generateVideoFilename(day) ELSE name

\* (for comparison) a status that reports the capacity of the buffer
GetStatusCapacity(name, buf, stamp) ==
    [CurrentVideo |-> name, FrameBufferSize |-> MaxFrameBuffer, LastUpdate |-> stamp]

\* what GetStatus returns
GetStatus(name, buf, stamp) ==
    [CurrentVideo |-> name, FrameBufferSize |-> Len(buf), LastUpdate |-> stamp]

InitCapture ==
    /\ frameBuffer = <<>>
    /\ currentVideo = NoVideo
    /\ lastUpdate = 0
    /\ tcMu = "none"
    /\ tcStopCh = FALSE
    /\ tcCtxDone = FALSE
    /\ capPc = "none"
    /\ capFrame = 0
    /\ schedPc = "none"
    /\ midnightTimer = "unarmed"
    /\ stopPc = "idle"
    /\ startPc = "idle"
    /\ today = 1
    /\ videoFiles = [d \in Days |-> <<>>]
    /\ tlNext = 0
    /\ evicted = {}
    /\ flushStartName = NoVideo

\* Capture.Start: under tc.mu, launch the two goroutines
CaptureStart ==
    /\ startPc = "idle"
    /\ tcMu = "none"
    /\ startPc' = "done"
    /\ capPc' = "select"
    /\ schedPc' = "init"
    /\ UNCHANGED <<frameBuffer, currentVideo, lastUpdate, tcMu, tcStopCh, tcCtxDone,
                   capFrame, midnightTimer, stopPc, today, videoFiles, tlNext>>
    /\ UNCHANGED <<evicted, flushStartName>>
    /\ UNCHANGED otherThanCapture

\* the ambient context is cancelled
CaptureCtxCancel ==
    /\ ~tcCtxDone
    /\ tcCtxDone' = TRUE
    /\ UNCHANGED <<frameBuffer, currentVideo, lastUpdate, tcMu, tcStopCh,
                   capPc, capFrame, schedPc, midnightTimer, stopPc, startPc, today,
                   videoFiles, tlNext>>
    /\ UNCHANGED <<evicted, flushStartName>>
    /\ UNCHANGED otherThanCapture

\* local midnight passes; an armed midnight timer fires
ClockMidnight ==
    /\ today < MaxDays
    /\ today' = today + 1
    /\ midnightTimer' = IF midnightTimer = "armed" THEN "fired" ELSE midnightTimer
    /\ UNCHANGED <<frameBuffer, currentVideo, lastUpdate, tcMu, tcStopCh, tcCtxDone,
                   capPc, capFrame, schedPc, stopPc, startPc, videoFiles, tlNext>>
    /\ UNCHANGED <<evicted, flushStartName>>
    /\ UNCHANGED otherThanCapture

\* captureFrames: ticker.C fires and ComposeFrames succeeds; captureFrame goes on
\* to tc.mu.Lock()
CapTickComposed ==
    /\ capPc = "select"
    /\ tlNext < MaxTLFrames
    /\ tlNext' = tlNext + 1
    /\ capFrame' = tlNext + 1
    /\ capPc' = "lock"
    /\ UNCHANGED <<frameBuffer, currentVideo, lastUpdate, tcMu, tcStopCh, tcCtxDone,
                   schedPc, midnightTimer, stopPc, startPc, today, videoFiles>>
    /\ UNCHANGED <<evicted, flushStartName>>
    /\ UNCHANGED otherThanCapture

\* (for comparison) a captureFrame that looks at stopCh once it has the lock
\* and gives its frame up when the capture was stopped
CapAppendUnlessStopped ==
    /\ capPc = "lock"
    /\ CanLock(tcMu)
    /\ IF tcStopCh
         THEN /\ capPc' = "done"
              /\ UNCHANGED <<frameBuffer, evicted>>
         ELSE /\ frameBuffer' = AppendFrame(frameBuffer, capFrame)
              /\ evicted' = evicted \cup ((FramesOf(frameBuffer) \cup {capFrame})
                                            \ FramesOf(AppendFrame(frameBuffer, capFrame)))
              /\ capPc' = "select"
    /\ capFrame' = 0
    /\ UNCHANGED <<currentVideo, lastUpdate, tcMu, tcStopCh, tcCtxDone,
                   schedPc, midnightTimer, stopPc, startPc, today, videoFiles, tlNext>>
    /\ UNCHANGED flushStartName
    /\ UNCHANGED otherThanCapture

\* captureFrame: with tc.mu held, append and evict, then unlock
CapAppend ==
    /\ capPc = "lock"
    /\ CanLock(tcMu)
    /\ frameBuffer' = AppendFrame(frameBuffer, capFrame)
    /\ evicted' = evicted \cup ((FramesOf(frameBuffer) \cup {capFrame})
                                  \ FramesOf(AppendFrame(frameBuffer, capFrame)))
    /\ capFrame' = 0
    /\ capPc' = "select"
    /\ UNCHANGED <<currentVideo, lastUpdate, tcMu, tcStopCh, tcCtxDone,
                   schedPc, midnightTimer, stopPc, startPc, today, videoFiles, tlNext>>
    /\ UNCHANGED flushStartName
    /\ UNCHANGED otherThanCapture

\* captureFrames: <-ctx.Done() or <-tc.stopCh
CapExit ==
    /\ capPc = "select"
    /\ tcStopCh \/ tcCtxDone
    /\ capPc' = "done"
    /\ UNCHANGED <<frameBuffer, currentVideo, lastUpdate, tcMu, tcStopCh, tcCtxDone,
                   capFrame, schedPc, midnightTimer, stopPc, startPc, today,
                   videoFiles, tlNext>>
    /\ UNCHANGED <<evicted, flushStartName>>
    /\ UNCHANGED otherThanCapture

\* videoUpdateScheduler: create the ticker and the midnight timer
SchedInit ==
    /\ schedPc = "init"
    /\ midnightTimer' = "armed"
    /\ schedPc' = "select"
    /\ UNCHANGED <<frameBuffer, currentVideo, lastUpdate, tcMu, tcStopCh, tcCtxDone,
                   capPc, capFrame, stopPc, startPc, today, videoFiles, tlNext>>
    /\ UNCHANGED <<evicted, flushStartName>>
    /\ UNCHANGED otherThanCapture

\* videoUpdateScheduler: <-ctx.Done() or <-tc.stopCh
SchedExit ==
    /\ schedPc = "select"
    /\ tcStopCh \/ tcCtxDone
    /\ schedPc' = "done"
    /\ UNCHANGED <<frameBuffer, currentVideo, lastUpdate, tcMu, tcStopCh, tcCtxDone,
                   capPc, capFrame, midnightTimer, stopPc, startPc, today,
                   videoFiles, tlNext>>
    /\ UNCHANGED <<evicted, flushStartName>>
    /\ UNCHANGED otherThanCapture

\* videoUpdateScheduler: <-ticker.C, call updateVideo
SchedTick ==
    /\ schedPc = "select"
    /\ schedPc' = "update_lock"
    /\ UNCHANGED <<frameBuffer, currentVideo, lastUpdate, tcMu, tcStopCh, tcCtxDone,
                   capPc, capFrame, midnightTimer, stopPc, startPc, today,
                   videoFiles, tlNext>>
    /\ UNCHANGED <<evicted, flushStartName>>
    /\ UNCHANGED otherThanCapture

\* updateVideo called from the ticker: lock; an empty buffer returns at once,
\* otherwise the file name is decided and ExtendVideo starts
SchedUpdateLock ==
    /\ schedPc = "update_lock"
    /\ tcMu = "none"
    /\ IF frameBuffer = <<>>
         THEN /\ schedPc' = "select"
              /\ UNCHANGED <<tcMu, currentVideo, flushStartName>>
         ELSE /\ tcMu' = "sched"
              /\ flushStartName' = currentVideo
              /\ currentVideo' = FlushTarget(currentVideo, today)
              /\ schedPc' = "extending"
    /\ UNCHANGED <<frameBuffer, lastUpdate, tcStopCh, tcCtxDone,
                   capPc, capFrame, midnightTimer, stopPc, startPc, today,
                   videoFiles, tlNext>>
    /\ UNCHANGED evicted
    /\ UNCHANGED otherThanCapture

\* updateVideo: ExtendVideo returned nil; truncate, stamp, unlock
SchedExtendOK ==
    /\ schedPc = "extending"
    /\ videoFiles' = [videoFiles EXCEPT ![FileDay(currentVideo)] = @ \o frameBuffer]
    /\ frameBuffer' = Truncate(frameBuffer)
    /\ lastUpdate' = today
    /\ tcMu' = "none"
    /\ schedPc' = "select"
    /\ flushStartName' = NoVideo
    /\ UNCHANGED <<currentVideo, tcStopCh, tcCtxDone, capPc, capFrame, midnightTimer,
                   stopPc, startPc, today, tlNext>>
    /\ UNCHANGED evicted
    /\ UNCHANGED otherThanCapture

\* (for comparison) a failed flush that clears the buffer all the same
SchedExtendFailTruncates ==
    /\ schedPc = "extending"
    /\ tcMu' = "none"
    /\ schedPc' = "select"
    /\ flushStartName' = NoVideo
    /\ frameBuffer' = <<>>
    /\ UNCHANGED <<currentVideo, lastUpdate, tcStopCh, tcCtxDone,
                   capPc, capFrame, midnightTimer, stopPc, startPc, today,
                   videoFiles, tlNext>>
    /\ UNCHANGED evicted
    /\ UNCHANGED otherThanCapture

\* updateVideo: ExtendVideo returned an error; unlock
SchedExtendFail ==
    /\ schedPc = "extending"
    /\ tcMu' = "none"
    /\ schedPc' = "select"
    /\ flushStartName' = NoVideo
    /\ UNCHANGED <<frameBuffer, currentVideo, lastUpdate, tcStopCh, tcCtxDone,
                   capPc, capFrame, midnightTimer, stopPc, startPc, today,
                   videoFiles, tlNext>>
    /\ UNCHANGED evicted
    /\ UNCHANGED otherThanCapture

\* videoUpdateScheduler: <-midnightTimer.C, call rotateVideo
SchedMidnight ==
    /\ schedPc = "select"
    /\ midnightTimer = "fired"
    /\ midnightTimer' = "unarmed"
    /\ schedPc' = "rotate_lock"
    /\ UNCHANGED <<frameBuffer, currentVideo, lastUpdate, tcMu, tcStopCh, tcCtxDone,
                   capPc, capFrame, stopPc, startPc, today, videoFiles, tlNext>>
    /\ UNCHANGED <<evicted, flushStartName>>
    /\ UNCHANGED otherThanCapture

\* rotateVideo: lock.  With an empty buffer the new name is set, the lock is
\* released and the scheduler re-arms the timer.  With a non-empty buffer
\* rotateVideo calls updateVideo, whose tc.mu.Lock() waits for the lock that
\* rotateVideo itself holds (sync.RWMutex is not reentrant): the goroutine
\* stays at "rotate_update_lock" holding tc.mu, and no step leads out of it.
SchedRotateLock ==
    /\ schedPc = "rotate_lock"
    /\ tcMu = "none"
    /\ IF frameBuffer = <<>>
         THEN /\ currentVideo' = generateVideoFilename(today)
              /\ midnightTimer' = "armed"
              /\ schedPc' = "select"
              /\ UNCHANGED tcMu
         ELSE /\ tcMu' = "sched"
              /\ schedPc' = "rotate_update_lock"
              /\ UNCHANGED <<currentVideo, midnightTimer>>
    /\ UNCHANGED <<frameBuffer, lastUpdate, tcStopCh, tcCtxDone,
                   capPc, capFrame, stopPc, startPc, today, videoFiles, tlNext>>
    /\ UNCHANGED <<evicted, flushStartName>>
    /\ UNCHANGED otherThanCapture

\* Capture.Stop is called: tc.mu.Lock()
CaptureStopCall ==
    /\ stopPc = "idle"
    /\ stopPc' = "lock"
    /\ UNCHANGED <<frameBuffer, currentVideo, lastUpdate, tcMu, tcStopCh, tcCtxDone,
                   capPc, capFrame, schedPc, midnightTimer, startPc, today,
                   videoFiles, tlNext>>
    /\ UNCHANGED <<evicted, flushStartName>>
    /\ UNCHANGED otherThanCapture

\* Capture.Stop: lock acquired, close(tc.stopCh), start waiting
CaptureStopLock ==
    /\ stopPc = "lock"
    /\ tcMu = "none"
    /\ tcMu' = "stop"
    /\ tcStopCh' = TRUE
    /\ stopPc' = "wait"
    /\ UNCHANGED <<frameBuffer, currentVideo, lastUpdate, tcCtxDone,
                   capPc, capFrame, schedPc, midnightTimer, startPc, today,
                   videoFiles, tlNext>>
    /\ UNCHANGED <<evicted, flushStartName>>
    /\ UNCHANGED otherThanCapture

\* both worker goroutines have called wg.Done()
WorkersDone ==
    /\ capPc \in {"none", "done"}
    /\ schedPc \in {"none", "done"}

\* Capture.Stop: case <-done
CaptureStopDone ==
    /\ stopPc = "wait"
    /\ WorkersDone
    /\ tcMu' = "none"
    /\ stopPc' = "returned"
    /\ UNCHANGED <<frameBuffer, currentVideo, lastUpdate, tcStopCh, tcCtxDone,
                   capPc, capFrame, schedPc, midnightTimer, startPc, today,
                   videoFiles, tlNext>>
    /\ UNCHANGED <<evicted, flushStartName>>
    /\ UNCHANGED otherThanCapture

\* Capture.Stop: case <-time.After(3 * time.Second), or case <-ctx.Done() of
\* the ctx handed to Stop
CaptureStopTimeout ==
    /\ stopPc = "wait"
    /\ tcMu' = "none"
    /\ stopPc' = "returned"
    /\ UNCHANGED <<frameBuffer, currentVideo, lastUpdate, tcStopCh, tcCtxDone,
                   capPc, capFrame, schedPc, midnightTimer, startPc, today,
                   videoFiles, tlNext>>
    /\ UNCHANGED <<evicted, flushStartName>>
    /\ UNCHANGED otherThanCapture

NextCapture ==
    \/ CaptureStart
    \/ CaptureCtxCancel
    \/ ClockMidnight
    \/ CapTickComposed
    \/ CapAppend
    \/ CapExit
    \/ SchedInit
    \/ SchedExit
    \/ SchedTick
    \/ SchedUpdateLock
    \/ SchedExtendOK
    \/ SchedExtendFail
    \/ SchedMidnight
    \/ SchedRotateLock
    \/ CaptureStopCall
    \/ CaptureStopLock
    \/ CaptureStopDone
    \/ CaptureStopTimeout

-----------------------------------------------------------------------------
(* camera.DefaultCameraManager *)

\* /dev/video<n>
DevicePath(n) == <<"/dev/video", n>>

DevicePaths == {DevicePath(n) : n \in 0..(MaxDevices - 1)}

\* the numeric suffix of a device path
extractDeviceNumber(device) == device[2]

StatusInactive == "inactive"
StatusActive == "active"
StatusError == "error"

SourceTypeUSBCamera == "usb_camera"
SourceTypeX11Screen == "x11_screen"

X11Device == <<"x11:screen">>

\* fmt.Sprintf("camera_%d", time.Now().UnixNano())
generateCameraID(clock) == <<"camera_", clock>>

\* the status a freshly created source has after source.Start returned
StartedStatus(ok) == IF ok THEN StatusActive ELSE StatusError

\* (for comparison) a registry that only takes sources whose Start succeeded
RegisterIfStarted(reg, id, src) ==
    IF src.status = "error" THEN reg
    ELSE [i \in DOMAIN reg \cup {id} |-> IF i = id THEN src ELSE reg[i]]

\* m.videoSources[sourceID] = source
Register(reg, id, src) == [i \in DOMAIN reg \cup {id} |-> IF i = id THEN src ELSE reg[i]]

\* delete(m.videoSources, id)
Unregister(reg, ids) == [i \in DOMAIN reg \ ids |-> reg[i]]

\* (for comparison) a lookup that only sees the sources that are active
IsRegisteredActive(reg, device) ==
    \E i \in DOMAIN reg : reg[i].device = device /\ reg[i].status = "active"

\* the isRegistered loop of performDiscovery
IsRegistered(reg, device) == \E i \in DOMAIN reg : reg[i].device = device

\* ScanDevices returns the paths sorted by device number
RECURSIVE SortedSeq(_)
SortedSeq(S) ==
    IF S = {} THEN <<>>
    ELSE LET m == CHOOSE x \in S :
                    \A y \in S : extractDeviceNumber(x) <= extractDeviceNumber(y)
         IN  <<m>> \o SortedSeq(S \ {m})

\* time.Now() read at a creation: later than every earlier reading
Tick(clock) == clock + 1

\* the first loop of performDiscovery: for each reported device that is not
\* registered, addVideoSourceInternal creates a source (its id comes from the
\* clock read at that moment), registers it and starts it.  ok[d] is whether the
\* Start of the source of d succeeded.
RECURSIVE AddDiscovered(_, _, _, _)
AddDiscovered(reg, clock, devs, ok) ==
    IF devs = <<>> THEN [reg |-> reg, clock |-> clock]
    ELSE LET d == Head(devs)
         IN  IF IsRegistered(reg, d)
               THEN AddDiscovered(reg, clock, Tail(devs), ok)
               ELSE LET now == Tick(clock)
                        src == [type |-> SourceTypeUSBCamera, device |-> d,
                                status |-> StartedStatus(ok[d])]
                    IN  AddDiscovered(Register(reg, generateCameraID(now), src),
                                      now, Tail(devs), ok)

\* (for comparison) a removal that does not spare the screen source
ToRemoveAnyType(reg, devs) ==
    {i \in DOMAIN reg : reg[i].device \notin devs}

\* the second and third loop of performDiscovery: the ids of the sources, other
\* than the screen source, whose device is no longer reported
ToRemove(reg, devs) ==
    {i \in DOMAIN reg : /\ reg[i].type # SourceTypeX11Screen
                        /\ reg[i].device \notin devs}

\* performDiscovery (lock held by the caller)
performDiscovery(reg, clock, devs, ok) ==
    LET added == AddDiscovered(reg, clock, SortedSeq(devs), ok)
    IN  [reg |-> Unregister(added.reg, ToRemove(added.reg, devs)),
         clock |-> added.clock]

\* the reported devices that a pass will create a source for
Unregistered(reg, devs) == {d \in devs : ~IsRegistered(reg, d)}

InitManager ==
    /\ videoSources = <<>>
    /\ mgrMu = "none"
    /\ mgrStopCh = FALSE
    /\ mgrCtxDone = FALSE
    /\ bgPc = "none"
    /\ mgrStartPc = "idle"
    /\ mgrStopPc = "idle"
    /\ devices \in SUBSET DevicePaths
    /\ nanoClock = 0

\* a device appears in or disappears from what ScanDevices reports
DeviceChange ==
    /\ \E d \in DevicePaths :
         devices' = IF d \in devices THEN devices \ {d} ELSE devices \cup {d}
    /\ UNCHANGED <<videoSources, mgrMu, mgrStopCh, mgrCtxDone, bgPc, mgrStartPc,
                   mgrStopPc, nanoClock>>
    /\ UNCHANGED otherThanManager

\* the context given to Manager.Start is cancelled
MgrCtxCancel ==
    /\ ~mgrCtxDone
    /\ mgrCtxDone' = TRUE
    /\ UNCHANGED <<videoSources, mgrMu, mgrStopCh, bgPc, mgrStartPc,
                   mgrStopPc, devices, nanoClock>>
    /\ UNCHANGED otherThanManager

\* Manager.Start: initial scan, then the screen source is created, registered
\* and started, then backgroundScan is launched
MgrStart ==
    /\ mgrStartPc = "idle"
    /\ mgrMu = "none"
    /\ \E ok \in [devices -> BOOLEAN], x11ok \in BOOLEAN :
         LET r == performDiscovery(videoSources, nanoClock, devices, ok)
             now == Tick(r.clock)
             x11 == [type |-> SourceTypeX11Screen, device |-> X11Device,
                     status |-> StartedStatus(x11ok)]
         IN  /\ now <= MaxClock
             /\ videoSources' = Register(r.reg, generateCameraID(now), x11)
             /\ nanoClock' = now
    /\ bgPc' = "select"
    /\ mgrStartPc' = "done"
    /\ UNCHANGED <<mgrMu, mgrStopCh, mgrCtxDone, mgrStopPc, devices>>
    /\ UNCHANGED otherThanManager

\* Manager.Start: the initial scan fails and Start returns the error
MgrStartScanError ==
    /\ mgrStartPc = "idle"
    /\ mgrMu = "none"
    /\ mgrStartPc' = "done"
    /\ UNCHANGED <<videoSources, mgrMu, mgrStopCh, mgrCtxDone, bgPc,
                   mgrStopPc, devices, nanoClock>>
    /\ UNCHANGED otherThanManager

\* backgroundScan: <-ticker.C; the goroutine goes on to m.mu.Lock()
BgTick ==
    /\ bgPc = "select"
    /\ bgPc' = "lock"
    /\ UNCHANGED <<videoSources, mgrMu, mgrStopCh, mgrCtxDone, mgrStartPc,
                   mgrStopPc, devices, nanoClock>>
    /\ UNCHANGED otherThanManager

\* backgroundScan: with m.mu held, performDiscovery, unlock
BgScan ==
    /\ bgPc = "lock"
    /\ mgrMu = "none"
    /\ \E ok \in [devices -> BOOLEAN] :
         LET r == performDiscovery(videoSources, nanoClock, devices, ok)
         IN  /\ r.clock <= MaxClock
             /\ videoSources' = r.reg
             /\ nanoClock' = r.clock
    /\ bgPc' = "select"
    /\ UNCHANGED <<mgrMu, mgrStopCh, mgrCtxDone, mgrStartPc, mgrStopPc, devices>>
    /\ UNCHANGED otherThanManager

\* backgroundScan: <-m.stopCh or <-ctx.Done()
BgExit ==
    /\ bgPc = "select"
    /\ mgrStopCh \/ mgrCtxDone
    /\ bgPc' = "done"
    /\ UNCHANGED <<videoSources, mgrMu, mgrStopCh, mgrCtxDone, mgrStartPc,
                   mgrStopPc, devices, nanoClock>>
    /\ UNCHANGED otherThanManager

\* DiscoverCameras: lock, performDiscovery, unlock
DiscoverCameras ==
    /\ mgrMu = "none"
    /\ \E ok \in [devices -> BOOLEAN] :
         LET r == performDiscovery(videoSources, nanoClock, devices, ok)
         IN  /\ r.clock <= MaxClock
             /\ videoSources' = r.reg
             /\ nanoClock' = r.clock
    /\ UNCHANGED <<mgrMu, mgrStopCh, mgrCtxDone, bgPc, mgrStartPc, mgrStopPc, devices>>
    /\ UNCHANGED otherThanManager

\* AddVideoSource(USB, config with Device d): create and register; no Start
AddVideoSource ==
    /\ mgrMu = "none"
    /\ \E d \in DevicePaths :
         /\ Tick(nanoClock) <= MaxClock
         /\ nanoClock' = Tick(nanoClock)
         /\ videoSources' = Register(videoSources, generateCameraID(Tick(nanoClock)),
                                     [type |-> SourceTypeUSBCamera, device |-> d,
                                      status |-> StatusInactive])
    /\ UNCHANGED <<mgrMu, mgrStopCh, mgrCtxDone, bgPc, mgrStartPc, mgrStopPc, devices>>
    /\ UNCHANGED otherThanManager

\* RemoveVideoSource(id) for a registered id: stop it if active, delete it
RemoveVideoSource ==
    /\ mgrMu = "none"
    /\ \E id \in DOMAIN videoSources :
         videoSources' = Unregister(videoSources, {id})
    /\ UNCHANGED <<mgrMu, mgrStopCh, mgrCtxDone, bgPc, mgrStartPc, mgrStopPc,
                   devices, nanoClock>>
    /\ UNCHANGED otherThanManager

\* Manager.Stop is called: m.mu.Lock()
MgrStopCall ==
    /\ mgrStopPc = "idle"
    /\ mgrStopPc' = "lock"
    /\ UNCHANGED <<videoSources, mgrMu, mgrStopCh, mgrCtxDone, bgPc, mgrStartPc,
                   devices, nanoClock>>
    /\ UNCHANGED otherThanManager

\* Manager.Stop: lock acquired, close(m.stopCh), m.wg.Wait() begins
MgrStopLock ==
    /\ mgrStopPc = "lock"
    /\ mgrMu = "none"
    /\ mgrMu' = "stop"
    /\ mgrStopCh' = TRUE
    /\ mgrStopPc' = "wait"
    /\ UNCHANGED <<videoSources, mgrCtxDone, bgPc, mgrStartPc, devices, nanoClock>>
    /\ UNCHANGED otherThanManager

\* Manager.Stop: m.wg.Wait() returned; every source is stopped (USB and screen
\* Stop return nil), the registry and the stop channel are replaced, unlock
MgrStopFinish ==
    /\ mgrStopPc = "wait"
    /\ bgPc \in {"none", "done"}
    /\ videoSources' = <<>>
    /\ mgrStopCh' = FALSE
    /\ mgrMu' = "none"
    /\ mgrStopPc' = "returned"
    /\ UNCHANGED <<mgrCtxDone, bgPc, mgrStartPc, devices, nanoClock>>
    /\ UNCHANGED otherThanManager

\* the wall clock is set back (a clock synchronisation step, a change of the
\* system time): time.Now().UnixNano() is the wall clock reading and carries no
\* monotonic part
ClockSetBack ==
    /\ nanoClock > 0
    /\ \E earlier \in 0..(nanoClock - 1) : nanoClock' = earlier
    /\ UNCHANGED <<videoSources, mgrMu, mgrStopCh, mgrCtxDone, bgPc, mgrStartPc,
                   mgrStopPc, devices>>
    /\ UNCHANGED otherThanManager

NextManager ==
    \/ DeviceChange
    \/ MgrCtxCancel
    \/ MgrStart
    \/ MgrStartScanError
    \/ BgTick
    \/ BgScan
    \/ BgExit
    \/ DiscoverCameras
    \/ AddVideoSource
    \/ RemoveVideoSource
    \/ MgrStopCall
    \/ MgrStopLock
    \/ MgrStopFinish

-----------------------------------------------------------------------------
(* The JPEG framing loop of StartStream *)

SOI == <<255, 216>>       \* []byte{0xFF, 0xD8}
EOI == <<255, 217>>       \* []byte{0xFF, 0xD9}

\* the byte values the model feeds: the marker bytes and one other byte
Bytes == {0, 216, 217, 255}

\* data[from:to] of Go, with 0-based bounds
Slice(data, from, to) == SubSeq(data, from + 1, to)

\* bytes.Index(data, marker): the 0-based index of the first occurrence, or -1
Index(data, marker) ==
    LET hits == {i \in 0..(Len(data) - Len(marker)) :
                    Slice(data, i, i + Len(marker)) = marker}
    IN  IF hits = {} THEN -1 ELSE CHOOSE i \in hits : \A j \in hits : i <= j

\* the inner loop of the reader goroutine over data = frameBuffer.Bytes():
\* the frames it sends and what it leaves in frameBuffer
RECURSIVE ScanFrames(_, _)
ScanFrames(data, sent) ==
    LET startIdx == Index(data, SOI)
    IN  IF startIdx = -1
          THEN [buffer |-> data, frames |-> sent]
          ELSE LET rel == Index(Slice(data, startIdx + 2, Len(data)), EOI)
               IN  IF rel = -1
                     THEN [buffer |-> IF startIdx > 0
                                        THEN Slice(data, startIdx, Len(data))
                                        ELSE data,
                           frames |-> sent]
                     ELSE LET endIdx == rel + startIdx + 2 + 2
                              frame == Slice(data, 0, endIdx)
                              remaining == Slice(data, endIdx, Len(data))
                          IN  IF Len(remaining) > 0
                                THEN ScanFrames(remaining, Append(sent, frame))
                                ELSE [buffer |-> <<>>, frames |-> Append(sent, frame)]

\* the reader before the encoder has written anything
IdleFramer ==
    /\ stream = <<>>
    /\ unread = <<>>
    /\ jpegBuffer = <<>>
    /\ emitted = <<>>
    /\ readerPc = "reading"

\* the reader goroutine starts on an encoder that will write some byte stream
InitFramer ==
    /\ stream \in UNION {[1..n -> Bytes] : n \in 0..MaxStreamLen}
    /\ unread = stream
    /\ jpegBuffer = <<>>
    /\ emitted = <<>>
    /\ readerPc = "reading"

\* stdout.Read returns the next n bytes; they are appended to frameBuffer and
\* the framing loop runs over it
ReadChunk ==
    /\ readerPc = "reading"
    /\ \E n \in 1..Len(unread) :
         LET r == ScanFrames(jpegBuffer \o SubSeq(unread, 1, n), <<>>)
         IN  /\ unread' = SubSeq(unread, n + 1, Len(unread))
             /\ jpegBuffer' = r.buffer
             /\ emitted' = emitted \o r.frames
    /\ UNCHANGED <<stream, readerPc>>
    /\ UNCHANGED otherThanFramer

\* stdout.Read returns io.EOF after the last byte: the reader returns quietly
ReadEOF ==
    /\ readerPc = "reading"
    /\ unread = <<>>
    /\ readerPc' = "eof"
    /\ UNCHANGED <<stream, unread, jpegBuffer, emitted>>
    /\ UNCHANGED otherThanFramer

\* stdout.Read returns another error: it is reported and the reader returns
ReadError ==
    /\ readerPc = "reading"
    /\ readerPc' = "failed"
    /\ UNCHANGED <<stream, unread, jpegBuffer, emitted>>
    /\ UNCHANGED otherThanFramer

\* <-ctx.Done(): the reader returns
ReadCancel ==
    /\ readerPc = "reading"
    /\ readerPc' = "cancelled"
    /\ UNCHANGED <<stream, unread, jpegBuffer, emitted>>
    /\ UNCHANGED otherThanFramer

NextFramer ==
    \/ ReadChunk
    \/ ReadEOF
    \/ ReadError
    \/ ReadCancel

-----------------------------------------------------------------------------
(* camera.USBCameraSource: Start, Stop, ApplySettings, the forwarder and snapshot *)

FrameChanCap == 10            \* make(chan []byte, 10), the public frame channel
ErrorChanCap == 5             \* make(chan error, 5), the public error channel
InternalFrameChanCap == 10    \* make(chan []byte, 10), encoder -> forwarder
InternalErrorChanCap == 5     \* make(chan error, 5), encoder -> forwarder

NoFrame == 0                  \* latestFrame == nil
SnapNone == -2                \* no snapshot call has just returned
SnapError == -1               \* the snapshot call returned an error

NoReturn == "none"            \* no call of Start, Stop or ApplySettings has just returned
ReturnNil == "nil"            \* return nil
ReturnError == "error"        \* return fmt.Errorf(...)

DefaultFrameRate == 15        \* fps of NewUSBCameraSourceFromConfig
\* the frame rates ApplySettings is called with: a supported one and 0
ApplyFrameRates == {30, 0}
FrameRates == {DefaultFrameRate} \cup ApplyFrameRates

\* what the camera and the callers do over one run of the model: how many
\* frames the encoders produce in total and how many encoder processes the
\* source launches
Workloads ==
    { [frames |-> MaxFrames, launches |-> FewLaunches],
      [frames |-> FewFrames, launches |-> MaxLaunches] }

\* (for comparison) a send that is ready even when the channel is full
CanSendWhenFull(ch, cap) == Len(ch) <= cap

\* a buffered channel of Go: a send is ready while len(ch) < cap(ch)
CanSend(ch, cap) == Len(ch) < cap

\* (for comparison) a channel that hands out its newest element first
RecvNewest(ch) == [value |-> ch[Len(ch)], rest |-> SubSeq(ch, 1, Len(ch) - 1)]

\* (for comparison) a receive that leaves the element on the channel for the
\* other receivers
RecvKeeps(ch) == [value |-> Head(ch), rest |-> ch]

\* a receive takes the element at the head of the channel
Recv(ch) == [value |-> Head(ch), rest |-> Tail(ch)]

\* (for comparison) a forwarder that drops nothing when the channel is full
DropNothing(ch) == ch

\* select { case <-s.frameChan: default: }: the oldest pending frame, if any, is
\* taken off the channel
DropOldest(ch) == IF ch = <<>> THEN ch ELSE Recv(ch).rest

\* (for comparison) a latest-frame cell that is written once and then kept
StoreFirstOnly(old, frame) == IF old = NoFrame THEN frame ELSE old

\* s.latestFrame = copy of frame
StoreLatest(old, frame) == frame

\* cmd.Start(): one more encoder process parameterised by the capturer's settings
Launch(enc, rate) == [enc EXCEPT ![rate] = @ + 1]

\* an encoder process is gone
Gone(enc, rate) == [enc EXCEPT ![rate] = @ - 1]

NoEncoders(enc) == \A r \in FrameRates : enc[r] = 0

\* the result of CaptureFrameForTimelapse
SnapshotResult(status, latest) ==
    IF status # StatusActive THEN SnapError
    ELSE IF latest = NoFrame THEN SnapError
    ELSE latest

\* NewDirectUSBCameraSource, for a given workload
NewSource(w) ==
    /\ workload = w
    /\ srcStatus = StatusInactive
    /\ srcSettings = DefaultFrameRate
    /\ srcMu = "none"
    /\ srcStopClosed = FALSE
    /\ fwdPc = "none"
    /\ fwdItem = NoFrame
    /\ internalFrameChan = <<>>
    /\ internalErrorChan = 0
    /\ frameChan = <<>>
    /\ errorChan = 0
    /\ latestFrame = NoFrame
    /\ encoders = [r \in FrameRates |-> 0]
    /\ blockedErrSends = 0
    /\ nextFrame = 1
    /\ launched = 0
    /\ lastRecv = NoFrame
    /\ delivered = {}
    /\ lastEvicted = NoFrame
    /\ snapResult = SnapNone
    /\ srcReturned = NoReturn

InitSource == \E w \in Workloads : NewSource(w)

\* a source nobody starts
IdleSource == NewSource([frames |-> 0, launches |-> 0])

\* (for comparison) a Start without the early return for an active source
SourceStartAlways ==
    /\ srcMu = "none"
    /\ \E ok \in BOOLEAN :
         IF FALSE
           THEN /\ srcReturned' = ReturnNil
                /\ UNCHANGED <<srcStatus, encoders, launched, fwdPc>>
           ELSE IF ~ok
             THEN /\ srcStatus' = StatusError
                  /\ srcReturned' = ReturnError
                  /\ UNCHANGED <<encoders, launched, fwdPc>>
             ELSE /\ launched < workload.launches
                  /\ encoders' = Launch(encoders, srcSettings)
                  /\ launched' = launched + 1
                  /\ fwdPc' = "select"
                  /\ srcStatus' = StatusActive
                  /\ srcReturned' = ReturnNil
    /\ snapResult' = SnapNone
    /\ UNCHANGED <<workload, srcSettings, srcMu, srcStopClosed, fwdItem,
                   internalFrameChan, internalErrorChan, frameChan, errorChan,
                   latestFrame, blockedErrSends, nextFrame, lastRecv, delivered,
                   lastEvicted>>
    /\ UNCHANGED otherThanSource

\* USBCameraSource.Start: TestCapture succeeds (ok) or fails
SourceStart ==
    /\ srcMu = "none"
    /\ \E ok \in BOOLEAN :
         IF srcStatus = StatusActive
           THEN /\ srcReturned' = ReturnNil
                /\ UNCHANGED <<srcStatus, encoders, launched, fwdPc>>
           ELSE IF ~ok
             THEN /\ srcStatus' = StatusError
                  /\ srcReturned' = ReturnError
                  /\ UNCHANGED <<encoders, launched, fwdPc>>
             ELSE /\ launched < workload.launches
                  /\ encoders' = Launch(encoders, srcSettings)
                  /\ launched' = launched + 1
                  /\ fwdPc' = "select"
                  /\ srcStatus' = StatusActive
                  /\ srcReturned' = ReturnNil
    /\ snapResult' = SnapNone
    /\ UNCHANGED <<workload, srcSettings, srcMu, srcStopClosed, fwdItem,
                   internalFrameChan, internalErrorChan, frameChan, errorChan,
                   latestFrame, blockedErrSends, nextFrame, lastRecv, delivered,
                   lastEvicted>>
    /\ UNCHANGED otherThanSource

\* (for comparison) a Stop without the early return for an inactive source
SourceStopBeginAlways ==
    /\ srcMu = "none"
    /\ IF FALSE
         THEN /\ srcReturned' = ReturnNil
              /\ UNCHANGED <<srcMu, srcStopClosed>>
         ELSE /\ srcMu' = "stop"
              /\ srcStopClosed' = TRUE
              /\ srcReturned' = NoReturn
    /\ snapResult' = SnapNone
    /\ UNCHANGED <<workload, srcStatus, srcSettings, fwdPc, fwdItem,
                   internalFrameChan, internalErrorChan, frameChan, errorChan,
                   latestFrame, encoders, blockedErrSends, nextFrame, launched,
                   lastRecv, delivered, lastEvicted>>
    /\ UNCHANGED otherThanSource

\* USBCameraSource.Stop up to s.wg.Wait(): an inactive source returns at once,
\* otherwise stopCh is closed and Stop waits, holding s.mu
SourceStopBegin ==
    /\ srcMu = "none"
    /\ IF srcStatus = StatusInactive
         THEN /\ srcReturned' = ReturnNil
              /\ UNCHANGED <<srcMu, srcStopClosed>>
         ELSE /\ srcMu' = "stop"
              /\ srcStopClosed' = TRUE
              /\ srcReturned' = NoReturn
    /\ snapResult' = SnapNone
    /\ UNCHANGED <<workload, srcStatus, srcSettings, fwdPc, fwdItem,
                   internalFrameChan, internalErrorChan, frameChan, errorChan,
                   latestFrame, encoders, blockedErrSends, nextFrame, launched,
                   lastRecv, delivered, lastEvicted>>
    /\ UNCHANGED otherThanSource

\* (for comparison) a Stop that clears the latest-frame cell
SourceStopEndClears ==
    /\ srcMu = "stop"
    /\ fwdPc = "none"
    /\ srcStopClosed' = FALSE
    /\ srcStatus' = StatusInactive
    /\ srcMu' = "none"
    /\ srcReturned' = ReturnNil
    /\ snapResult' = SnapNone
    /\ latestFrame' = NoFrame
    /\ UNCHANGED <<workload, srcSettings, fwdPc, fwdItem,
                   internalFrameChan, internalErrorChan, frameChan, errorChan,
                   encoders, blockedErrSends, nextFrame, launched,
                   lastRecv, delivered, lastEvicted>>
    /\ UNCHANGED otherThanSource

\* USBCameraSource.Stop after s.wg.Wait(): the forwarder has returned; a fresh
\* stopCh is made and the status becomes inactive.  Nothing here ends the
\* encoder process that Start launched.
SourceStopEnd ==
    /\ srcMu = "stop"
    /\ fwdPc = "none"
    /\ srcStopClosed' = FALSE
    /\ srcStatus' = StatusInactive
    /\ srcMu' = "none"
    /\ srcReturned' = ReturnNil
    /\ snapResult' = SnapNone
    /\ UNCHANGED <<workload, srcSettings, fwdPc, fwdItem,
                   internalFrameChan, internalErrorChan, frameChan, errorChan,
                   latestFrame, encoders, blockedErrSends, nextFrame, launched,
                   lastRecv, delivered, lastEvicted>>
    /\ UNCHANGED otherThanSource

\* USBCameraSource.ApplySettings up to s.wg.Wait(): the capturer and the
\* settings are replaced without validation; an active source closes stopCh
\* and waits for the forwarder
SourceApplySettings ==
    /\ srcMu = "none"
    /\ \E rate \in ApplyFrameRates : srcSettings' = rate
    /\ IF srcStatus = StatusActive
         THEN /\ launched < workload.launches
              /\ srcStatus' = StatusInactive
              /\ srcStopClosed' = TRUE
              /\ srcMu' = "apply"
              /\ srcReturned' = NoReturn
         ELSE /\ srcReturned' = ReturnNil
              /\ UNCHANGED <<srcStatus, srcStopClosed, srcMu>>
    /\ snapResult' = SnapNone
    /\ UNCHANGED <<workload, fwdPc, fwdItem,
                   internalFrameChan, internalErrorChan, frameChan, errorChan,
                   latestFrame, encoders, blockedErrSends, nextFrame, launched,
                   lastRecv, delivered, lastEvicted>>
    /\ UNCHANGED otherThanSource

\* USBCameraSource.ApplySettings after s.wg.Wait(): a new encoder with the new
\* settings and a new forwarder are started; the encoder launched before is
\* not touched
SourceApplyRestart ==
    /\ srcMu = "apply"
    /\ fwdPc = "none"
    /\ srcStopClosed' = FALSE
    /\ encoders' = Launch(encoders, srcSettings)
    /\ launched' = launched + 1
    /\ fwdPc' = "select"
    /\ srcStatus' = StatusActive
    /\ srcMu' = "none"
    /\ srcReturned' = ReturnNil
    /\ snapResult' = SnapNone
    /\ UNCHANGED <<workload, srcSettings, fwdItem,
                   internalFrameChan, internalErrorChan, frameChan, errorChan,
                   latestFrame, blockedErrSends, nextFrame,
                   lastRecv, delivered, lastEvicted>>
    /\ UNCHANGED otherThanSource

\* what every step of the forwarder, the encoders and the consumers leaves alone
callerState == <<workload, srcStatus, srcSettings, srcMu, srcStopClosed, launched>>

\* forwardFrames, outer select, case frame := <-s.internalFrameChan: the frame
\* is stored as latestFrame before any delivery is attempted
FwdRecvFrame ==
    /\ fwdPc = "select"
    /\ internalFrameChan # <<>>
    /\ fwdItem' = Recv(internalFrameChan).value
    /\ internalFrameChan' = Recv(internalFrameChan).rest
    /\ latestFrame' = StoreLatest(latestFrame, Recv(internalFrameChan).value)
    /\ fwdPc' = "deliver"
    /\ snapResult' = SnapNone
    /\ srcReturned' = NoReturn
    /\ UNCHANGED <<callerState, internalErrorChan, frameChan, errorChan, encoders,
                   blockedErrSends, nextFrame, lastRecv, delivered, lastEvicted>>
    /\ UNCHANGED otherThanSource

\* inner select, case s.frameChan <- frame
FwdSend ==
    /\ fwdPc = "deliver"
    /\ CanSend(frameChan, FrameChanCap)
    /\ frameChan' = Append(frameChan, fwdItem)
    /\ delivered' = delivered \cup {fwdItem}
    /\ fwdItem' = NoFrame
    /\ fwdPc' = "select"
    /\ snapResult' = SnapNone
    /\ srcReturned' = NoReturn
    /\ UNCHANGED <<callerState, internalFrameChan, internalErrorChan, errorChan,
                   latestFrame, encoders, blockedErrSends, nextFrame, lastRecv,
                   lastEvicted>>
    /\ UNCHANGED otherThanSource

\* inner select, default: taken only when neither the send nor stopCh is ready
FwdFull ==
    /\ fwdPc = "deliver"
    /\ ~CanSend(frameChan, FrameChanCap)
    /\ ~srcStopClosed
    /\ fwdPc' = "drop"
    /\ snapResult' = SnapNone
    /\ srcReturned' = NoReturn
    /\ UNCHANGED <<callerState, fwdItem, internalFrameChan, internalErrorChan, frameChan,
                   errorChan, latestFrame, encoders, blockedErrSends, nextFrame,
                   lastRecv, delivered, lastEvicted>>
    /\ UNCHANGED otherThanSource

\* select { case <-s.frameChan: default: }
FwdDrop ==
    /\ fwdPc = "drop"
    /\ frameChan' = DropOldest(frameChan)
    /\ lastEvicted' = IF DropOldest(frameChan) = frameChan
                        THEN lastEvicted ELSE Recv(frameChan).value
    /\ fwdPc' = "resend"
    /\ snapResult' = SnapNone
    /\ srcReturned' = NoReturn
    /\ UNCHANGED <<callerState, fwdItem, internalFrameChan, internalErrorChan,
                   errorChan, latestFrame, encoders, blockedErrSends, nextFrame,
                   lastRecv, delivered>>
    /\ UNCHANGED otherThanSource

\* select { case s.frameChan <- frame: case <-s.stopCh: return }, the send
FwdResend ==
    /\ fwdPc = "resend"
    /\ CanSend(frameChan, FrameChanCap)
    /\ frameChan' = Append(frameChan, fwdItem)
    /\ delivered' = delivered \cup {fwdItem}
    /\ fwdItem' = NoFrame
    /\ fwdPc' = "select"
    /\ snapResult' = SnapNone
    /\ srcReturned' = NoReturn
    /\ UNCHANGED <<callerState, internalFrameChan, internalErrorChan, errorChan,
                   latestFrame, encoders, blockedErrSends, nextFrame, lastRecv,
                   lastEvicted>>
    /\ UNCHANGED otherThanSource

\* outer select, case err := <-s.internalErrorChan
FwdRecvError ==
    /\ fwdPc = "select"
    /\ internalErrorChan > 0
    /\ internalErrorChan' = internalErrorChan - 1
    /\ fwdPc' = "edeliver"
    /\ snapResult' = SnapNone
    /\ srcReturned' = NoReturn
    /\ UNCHANGED <<callerState, fwdItem, internalFrameChan, frameChan, errorChan,
                   latestFrame, encoders, blockedErrSends, nextFrame, lastRecv,
                   delivered, lastEvicted>>
    /\ UNCHANGED otherThanSource

\* inner select, case s.errorChan <- err
FwdSendError ==
    /\ fwdPc = "edeliver"
    /\ errorChan < ErrorChanCap
    /\ errorChan' = errorChan + 1
    /\ fwdPc' = "select"
    /\ snapResult' = SnapNone
    /\ srcReturned' = NoReturn
    /\ UNCHANGED <<callerState, fwdItem, internalFrameChan, internalErrorChan, frameChan,
                   latestFrame, encoders, blockedErrSends, nextFrame, lastRecv,
                   delivered, lastEvicted>>
    /\ UNCHANGED otherThanSource

\* inner select, default: the error channel is full and stopCh is open
FwdErrorFull ==
    /\ fwdPc = "edeliver"
    /\ errorChan >= ErrorChanCap
    /\ ~srcStopClosed
    /\ fwdPc' = "edrop"
    /\ snapResult' = SnapNone
    /\ srcReturned' = NoReturn
    /\ UNCHANGED <<callerState, fwdItem, internalFrameChan, internalErrorChan, frameChan,
                   errorChan, latestFrame, encoders, blockedErrSends, nextFrame,
                   lastRecv, delivered, lastEvicted>>
    /\ UNCHANGED otherThanSource

\* select { case <-s.errorChan: default: }
FwdDropError ==
    /\ fwdPc = "edrop"
    /\ errorChan' = IF errorChan > 0 THEN errorChan - 1 ELSE errorChan
    /\ fwdPc' = "eresend"
    /\ snapResult' = SnapNone
    /\ srcReturned' = NoReturn
    /\ UNCHANGED <<callerState, fwdItem, internalFrameChan, internalErrorChan, frameChan,
                   latestFrame, encoders, blockedErrSends, nextFrame, lastRecv,
                   delivered, lastEvicted>>
    /\ UNCHANGED otherThanSource

\* select { case s.errorChan <- err: case <-s.stopCh: return }, the send
FwdResendError ==
    /\ fwdPc = "eresend"
    /\ errorChan < ErrorChanCap
    /\ errorChan' = errorChan + 1
    /\ fwdPc' = "select"
    /\ snapResult' = SnapNone
    /\ srcReturned' = NoReturn
    /\ UNCHANGED <<callerState, fwdItem, internalFrameChan, internalErrorChan, frameChan,
                   latestFrame, encoders, blockedErrSends, nextFrame, lastRecv,
                   delivered, lastEvicted>>
    /\ UNCHANGED otherThanSource

\* every case <-s.stopCh: return of forwardFrames (the outer select, directly
\* or after the 100 ms tick, and the four inner selects); the frame or error in
\* hand is discarded and wg.Done() runs
FwdStop ==
    /\ fwdPc \in {"select", "deliver", "resend", "edeliver", "eresend"}
    /\ srcStopClosed
    /\ fwdPc' = "none"
    /\ fwdItem' = NoFrame
    /\ snapResult' = SnapNone
    /\ srcReturned' = NoReturn
    /\ UNCHANGED <<callerState, internalFrameChan, internalErrorChan, frameChan,
                   errorChan, latestFrame, encoders, blockedErrSends, nextFrame,
                   lastRecv, delivered, lastEvicted>>
    /\ UNCHANGED otherThanSource

\* StartStream reader: a complete frame is sent on the internal frame channel
EncEmit ==
    /\ ~NoEncoders(encoders)
    /\ nextFrame <= workload.frames
    /\ CanSend(internalFrameChan, InternalFrameChanCap)
    /\ internalFrameChan' = Append(internalFrameChan, nextFrame)
    /\ nextFrame' = nextFrame + 1
    /\ snapResult' = SnapNone
    /\ srcReturned' = NoReturn
    /\ UNCHANGED <<callerState, fwdPc, fwdItem, internalErrorChan, frameChan, errorChan,
                   latestFrame, encoders, blockedErrSends, lastRecv, delivered,
                   lastEvicted>>
    /\ UNCHANGED otherThanSource

\* the encoder process ends and the reader sees EOF (the device went away, or
\* the ctx given to Start was cancelled and the process was killed)
EncExit ==
    /\ \E r \in FrameRates :
         /\ encoders[r] > 0
         /\ encoders' = Gone(encoders, r)
    /\ snapResult' = SnapNone
    /\ srcReturned' = NoReturn
    /\ UNCHANGED <<callerState, fwdPc, fwdItem, internalFrameChan, internalErrorChan,
                   frameChan, errorChan, latestFrame, blockedErrSends, nextFrame,
                   lastRecv, delivered, lastEvicted>>
    /\ UNCHANGED otherThanSource

\* the encoder fails (cmd.Start fails or stdout.Read returns an error): the
\* goroutine sends one error on the internal error channel, blocking while it
\* is full
EncFail ==
    /\ \E r \in FrameRates :
         /\ encoders[r] > 0
         /\ encoders' = Gone(encoders, r)
    /\ IF internalErrorChan < InternalErrorChanCap
         THEN /\ internalErrorChan' = internalErrorChan + 1
              /\ UNCHANGED blockedErrSends
         ELSE /\ blockedErrSends' = blockedErrSends + 1
              /\ UNCHANGED internalErrorChan
    /\ snapResult' = SnapNone
    /\ srcReturned' = NoReturn
    /\ UNCHANGED <<callerState, fwdPc, fwdItem, internalFrameChan,
                   frameChan, errorChan, latestFrame, nextFrame,
                   lastRecv, delivered, lastEvicted>>
    /\ UNCHANGED otherThanSource

\* a blocked errorChan <- err of a failed encoder goes through
EncErrorSent ==
    /\ blockedErrSends > 0
    /\ internalErrorChan < InternalErrorChanCap
    /\ blockedErrSends' = blockedErrSends - 1
    /\ internalErrorChan' = internalErrorChan + 1
    /\ snapResult' = SnapNone
    /\ srcReturned' = NoReturn
    /\ UNCHANGED <<callerState, fwdPc, fwdItem, internalFrameChan,
                   frameChan, errorChan, latestFrame, encoders, nextFrame,
                   lastRecv, delivered, lastEvicted>>
    /\ UNCHANGED otherThanSource

\* a consumer (an MJPEG responder) receives from GetFrameChannel()
ConsumeFrame ==
    /\ frameChan # <<>>
    /\ lastRecv' = Recv(frameChan).value
    /\ frameChan' = Recv(frameChan).rest
    /\ snapResult' = SnapNone
    /\ srcReturned' = NoReturn
    /\ UNCHANGED <<callerState, fwdPc, fwdItem, internalFrameChan, internalErrorChan,
                   errorChan, latestFrame, encoders, blockedErrSends, nextFrame,
                   delivered, lastEvicted>>
    /\ UNCHANGED otherThanSource

\* a consumer receives from GetErrorChannel()
ConsumeError ==
    /\ errorChan > 0
    /\ errorChan' = errorChan - 1
    /\ snapResult' = SnapNone
    /\ srcReturned' = NoReturn
    /\ UNCHANGED <<callerState, fwdPc, fwdItem, internalFrameChan, internalErrorChan,
                   frameChan, latestFrame, encoders, blockedErrSends, nextFrame,
                   lastRecv, delivered, lastEvicted>>
    /\ UNCHANGED otherThanSource

\* CaptureFrameForTimelapse, under s.mu.RLock()
Snapshot ==
    /\ srcMu = "none"
    /\ snapResult' = SnapshotResult(srcStatus, latestFrame)
    /\ srcReturned' = NoReturn
    /\ UNCHANGED <<callerState, fwdPc, fwdItem, internalFrameChan, internalErrorChan,
                   frameChan, errorChan, latestFrame, encoders, blockedErrSends,
                   nextFrame, lastRecv, delivered, lastEvicted>>
    /\ UNCHANGED otherThanSource

NextSource ==
    \/ SourceStart
    \/ SourceStopBegin
    \/ SourceStopEnd
    \/ SourceApplySettings
    \/ SourceApplyRestart
    \/ FwdRecvFrame
    \/ FwdSend
    \/ FwdFull
    \/ FwdDrop
    \/ FwdResend
    \/ FwdRecvError
    \/ FwdSendError
    \/ FwdErrorFull
    \/ FwdDropError
    \/ FwdResendError
    \/ FwdStop
    \/ EncEmit
    \/ EncExit
    \/ EncFail
    \/ EncErrorSent
    \/ ConsumeFrame
    \/ ConsumeError
    \/ Snapshot

-----------------------------------------------------------------------------
(* timelapse.FrameComposer: ComposeFrames, combineFrames and the layout *)

OutputWidth == 1920           \* Resolution.Width of DefaultConfig
OutputHeight == 1080          \* Resolution.Height of DefaultConfig

\* the zero values of LayoutInfo and Position: calculateLayout or
\* calculatePosition has not run yet
NoLayout == [Cols |-> 0, Rows |-> 0, CellWidth |-> 0, CellHeight |-> 0]
NoPosition == [X |-> 0, Y |-> 0, Width |-> 0, Height |-> 0]
\* no frame has been combined yet (no source has the id 0)
NoMosaic == {[ID |-> 0, Pos |-> NoPosition]}

DataJPEG == "jpeg"            \* a snapshot jpeg.Decode accepts
DataCorrupt == "corrupt"      \* a non-empty snapshot jpeg.Decode rejects
DataEmpty == ""               \* a snapshot of no bytes, returned without error
DataError == "error"          \* CaptureFrameForTimelapse returned an error

\* Source ids and names are strings compared with Go's <; the model writes a
\* string as its rank in that order.
SourceIDs == 1..MaxSources
SourceNames == {1, 2}

\* int(float64(frameCount)*0.6): the product is rounded to the nearest float64,
\* which is the integer itself whenever 0.6*frameCount is one, and truncated
ScaleByPointSix(frameCount) == (frameCount * 6) \div 10

\* FrameComposer.calculateLayout
calculateLayout(frameCount) ==
    LET cols == CASE frameCount = 1 -> 1
                  [] frameCount = 2 -> 2
                  [] frameCount = 3 -> 2
                  [] frameCount = 4 -> 2
                  [] OTHER -> ScaleByPointSix(frameCount) + 1
        rows == CASE frameCount = 1 -> 1
                  [] frameCount = 2 -> 1
                  [] frameCount = 3 -> 2
                  [] frameCount = 4 -> 2
                  [] OTHER -> (frameCount + cols - 1) \div cols
    IN  [Cols |-> cols, Rows |-> rows,
         CellWidth |-> OutputWidth \div cols, CellHeight |-> OutputHeight \div rows]

\* (for comparison) a position that counts along the rows of the grid
calculatePositionByRows(index, layout) ==
    LET row == index \div layout.Rows
        col == index % layout.Rows
    IN  [X |-> col * layout.CellWidth, Y |-> row * layout.CellHeight,
         Width |-> layout.CellWidth, Height |-> layout.CellHeight]

\* FrameComposer.calculatePosition
calculatePosition(index, layout) ==
    LET row == index \div layout.Cols
        col == index % layout.Cols
    IN  [X |-> col * layout.CellWidth, Y |-> row * layout.CellHeight,
         Width |-> layout.CellWidth, Height |-> layout.CellHeight]

\* (for comparison) an order by name alone
SourceLessByName(a, b) == a.Name < b.Name

\* the less function given to sort.SliceStable: by name, then by id
SourceLess(a, b) ==
    IF a.Name = b.Name THEN a.ID < b.ID ELSE a.Name < b.Name

\* one insertion of a stable sort: x goes in front of the first element that
\* is greater than it
RECURSIVE InsertStable(_, _)
InsertStable(sorted, x) ==
    IF sorted = <<>> THEN <<x>>
    ELSE IF SourceLess(x, Head(sorted)) THEN <<x>> \o sorted
    ELSE <<Head(sorted)>> \o InsertStable(Tail(sorted), x)

\* sort.SliceStable(sourceInfos, less): elements that are not less than one
\* another keep the order they had
RECURSIVE SortSliceStable(_)
SortSliceStable(infos) ==
    IF infos = <<>> THEN <<>>
    ELSE InsertStable(SortSliceStable(SubSeq(infos, 1, Len(infos) - 1)),
                      infos[Len(infos)])

\* every order in which the elements of S can be passed or iterated
Orderings(S) ==
    {o \in [1..Cardinality(S) -> S] : \A i, j \in DOMAIN o : o[i] = o[j] => i = j}

\* sourceSlice is the videoSources argument.  The first source of sourceSlice with the given id (the loop with break)
FirstWithID(sourceSlice, id) ==
    sourceSlice[CHOOSE i \in DOMAIN sourceSlice :
                    /\ sourceSlice[i].ID = id
                    /\ \A j \in 1..(i - 1) : sourceSlice[j].ID # id]

\* the last source of sourceSlice with the given id: sourceFrames[info.ID] is
\* assigned once per source, in the order of the slice
LastWithID(sourceSlice, id) ==
    sourceSlice[CHOOSE i \in DOMAIN sourceSlice :
                    /\ sourceSlice[i].ID = id
                    /\ \A j \in (i + 1)..Len(sourceSlice) : sourceSlice[j].ID # id]

\* FrameComposer.combineFrames: sourceFrames is the map id -> snapshot,
\* iteration the order in which range walks it
combineFrames(sourceFrames, sourceSlice, iteration) ==
    LET layout == calculateLayout(Cardinality(DOMAIN sourceFrames))
        sourceInfos == [k \in DOMAIN iteration |->
                          [ID |-> iteration[k],
                           Name |-> FirstWithID(sourceSlice, iteration[k]).Name]]
        sorted == SortSliceStable(sourceInfos)
        Decodes(info) == sourceFrames[info.ID] = DataJPEG
        drawn == SelectSeq(sorted, Decodes)
    IN  {[ID |-> drawn[i + 1].ID, Pos |-> calculatePosition(i, layout)] :
            i \in 0..(Len(drawn) - 1)}

\* a composer nobody calls
IdleComposer ==
    /\ compSources = {}
    /\ compMosaic = NoMosaic
    /\ compFrames = {}
    /\ compReturned = NoReturn
    /\ layFrameCount = 0
    /\ layInfo = NoLayout
    /\ layIndex = -1
    /\ layPos = NoPosition

\* what one source answers to GetStatus and CaptureFrameForTimelapse: the
\* snapshot of a source that is not active is an error
SourceAnswers ==
    {[Status |-> StatusActive, Data |-> d] :
        d \in {DataJPEG, DataCorrupt, DataEmpty, DataError}}
    \cup {[Status |-> StatusInactive, Data |-> DataError]}

\* the sets of sources a composition can be given: the ids are the keys of the
\* manager's registry, so no two sources share one; names may repeat
InitComposer ==
    /\ \E n \in 1..MaxSources :
         \E names \in [1..n -> SourceNames], answers \in [1..n -> SourceAnswers] :
            compSources = {[ID |-> i, Name |-> names[i],
                            Status |-> answers[i].Status,
                            Data |-> answers[i].Data] : i \in 1..n}
    /\ compMosaic = NoMosaic
    /\ compFrames = {}
    /\ compReturned = NoReturn
    /\ layFrameCount = 0
    /\ layInfo = NoLayout
    /\ layIndex = -1
    /\ layPos = NoPosition

\* (for comparison) a collection loop that gives up all snapshots at the first
\* source whose snapshot fails
CollectedUntilFailure(sourceSlice) ==
    IF \E j \in DOMAIN sourceSlice :
          sourceSlice[j].Status = StatusActive /\ sourceSlice[j].Data = DataError
      THEN {}
      ELSE {sourceSlice[i].ID : i \in {j \in DOMAIN sourceSlice :
                /\ sourceSlice[j].Status = StatusActive
                /\ sourceSlice[j].Data # DataEmpty}}

\* the keys of sourceFrames after the loop over the slice: sources that are not
\* active are skipped, so are snapshots that fail or have no bytes
Collected(sourceSlice) ==
    {sourceSlice[i].ID : i \in {j \in DOMAIN sourceSlice :
        /\ sourceSlice[j].Status = StatusActive
        /\ sourceSlice[j].Data # DataError
        /\ sourceSlice[j].Data # DataEmpty}}

\* FrameComposer.ComposeFrames for the sources in some order of the slice and
\* some iteration order of the sourceFrames map
ComposeFrames ==
    /\ compSources # {}
    /\ \E sourceSlice \in Orderings(compSources) :
         LET ids == Collected(sourceSlice)
             sourceFrames == [id \in ids |-> LastWithID(sourceSlice, id).Data]
         IN  IF ids = {}
               THEN /\ compReturned' = ReturnError
                    /\ compFrames' = {}
                    /\ compMosaic' = NoMosaic
               ELSE /\ compReturned' = ReturnNil
                    /\ compFrames' = ids
                    /\ \E iteration \in Orderings(ids) :
                          compMosaic' = combineFrames(sourceFrames, sourceSlice, iteration)
    /\ UNCHANGED <<compSources, layFrameCount, layInfo, layIndex, layPos>>
    /\ UNCHANGED otherThanComposer

NextComposer == ComposeFrames

\* the frame counts calculateLayout is called with
InitLayout ==
    /\ layFrameCount \in 1..MaxFrameCount
    /\ layInfo = NoLayout
    /\ layIndex = -1
    /\ layPos = NoPosition
    /\ compSources = {}
    /\ compMosaic = NoMosaic
    /\ compFrames = {}
    /\ compReturned = NoReturn

\* layout := fc.calculateLayout(len(sourceFrames))
CalculateLayout ==
    /\ layInfo = NoLayout
    /\ layInfo' = calculateLayout(layFrameCount)
    /\ UNCHANGED <<layFrameCount, layIndex, layPos, compSources, compMosaic,
                   compFrames, compReturned>>
    /\ UNCHANGED otherThanComposer

\* pos := fc.calculatePosition(frameIndex, layout), for the index of any frame
CalculatePosition ==
    /\ layInfo # NoLayout
    /\ \E index \in 0..(layFrameCount - 1) :
         /\ layIndex' = index
         /\ layPos' = calculatePosition(index, layInfo)
    /\ UNCHANGED <<layFrameCount, layInfo, compSources, compMosaic,
                   compFrames, compReturned>>
    /\ UNCHANGED otherThanComposer

NextLayout == CalculateLayout \/ CalculatePosition

-----------------------------------------------------------------------------
(* timelapse.VideoGenerator: ExtendVideo and qualityToCRF *)

VideoPaths == {<<"timelapse_", 1, ".mp4">>, <<"timelapse_", 2, ".mp4">>}

NoFile == -1                  \* os.Stat(videoPath) reports that the file does not exist

\* CombinedFrame.ComposedData: some bytes, or none
FrameData == {"jpeg", ""}

\* the frame lists ExtendVideo is called with
FrameLists == UNION {[1..n -> FrameData] : n \in 0..MaxExtendFrames}

\* Go's int is 64 bits wide; the model keeps its two's complement wraparound
\* at a width of IntBits bits
MinInt == -(2 ^ (IntBits - 1))
MaxInt == (2 ^ (IntBits - 1)) - 1
GoInts == MinInt..MaxInt

\* the value of an int expression whose exact result is x
WrapInt(x) == ((x - MinInt) % (2 ^ IntBits)) + MinInt

\* the qualities the configuration documents (1-5)
ConfigQualities == 1..5

NoCRF == <<>>                 \* qualityToCRF has not run

\* strconv.FormatFloat(crf, 'f', 1, 64) of a crf given in tenths: the digits
\* before and after the decimal point
FormatTenths(crf10) == <<crf10 \div 10, crf10 % 10>>

\* VideoGenerator.qualityToCRF; crf is held in tenths
qualityToCRF(quality) ==
    LET crf == 280 - WrapInt(quality - 1) * 25
        atLeast == IF crf < 180 THEN 180 ELSE crf
        clamped == IF atLeast > 280 THEN 280 ELSE atLeast
    IN  FormatTenths(clamped)

\* saveFramesAsImages: one image file per frame that has data
imageFiles(frames) == SelectSeq(frames, LAMBDA f : f # "")

\* (for comparison) an ExtendVideo that always makes its session directory
SessionsAfterAlways(frames, sessions) == sessions + 1

\* the session directories after ExtendVideo got as far as os.MkdirAll: none
\* is made for an empty frame list
SessionsAfter(frames, sessions) ==
    IF Len(frames) = 0 THEN sessions ELSE sessions + 1

\* os.MkdirAll(sessionDir, 0755): one more session directory on disk
MkdirAll(dirs) == dirs + 1

\* defer os.RemoveAll(sessionDir), run on every return after os.MkdirAll
RemoveAll(dirs) == dirs - 1

\* (for comparison) a concat that writes over videoPath itself: a failing
\* concat leaves a truncated file
VideoAfterAppendInPlace(length, added, concatOK, renameOK) ==
    IF concatOK THEN length + added ELSE 0

\* the frames in videoPath after appendToVideo got past the temporary video:
\* ffmpeg writes the concatenation to videoPath + ".new", and videoPath changes
\* only when os.Rename of that file succeeds
VideoAfterAppend(length, added, concatOK, renameOK) ==
    IF concatOK /\ renameOK THEN length + added ELSE length

\* a generator nobody calls
IdleVideoGen ==
    /\ vgVideos = [p \in VideoPaths |-> NoFile]
    /\ vgSessions = 0
    /\ vgSessionDirs = 0
    /\ vgEncoderRuns = 0
    /\ vgFrames = <<>>
    /\ vgReturned = NoReturn
    /\ vgQuality = 0
    /\ vgCRF = NoCRF

\* NewVideoGenerator, with a configuration of a documented quality; the output
\* directory holds any of the videos already
InitVideoGen ==
    /\ vgVideos \in [VideoPaths -> {NoFile, 1}]
    /\ vgSessions = 0
    /\ vgSessionDirs = 0
    /\ vgEncoderRuns = 0
    /\ vgFrames = <<>>
    /\ vgReturned = NoReturn
    /\ vgQuality \in ConfigQualities
    /\ vgCRF = NoCRF

\* ExtendVideo(videoPath, frames, config) with an empty frame list, or failing
\* at os.MkdirAll or while saving the images
ExtendVideoEarly ==
    /\ vgSessions < MaxExtends
    /\ \E frames \in FrameLists :
         /\ vgFrames' = frames
         /\ IF Len(frames) = 0
              THEN /\ vgReturned' = ReturnNil
                   /\ vgSessions' = SessionsAfter(frames, vgSessions)
                   /\ UNCHANGED vgSessionDirs
              ELSE \E mkdirOK \in BOOLEAN :
                     IF ~mkdirOK
                       THEN /\ vgReturned' = ReturnError
                            /\ UNCHANGED <<vgSessions, vgSessionDirs>>
                       ELSE /\ vgReturned' = ReturnError
                            /\ vgSessions' = SessionsAfter(frames, vgSessions)
                            /\ vgSessionDirs' = RemoveAll(MkdirAll(vgSessionDirs))
    /\ UNCHANGED <<vgVideos, vgEncoderRuns, vgQuality, vgCRF>>
    /\ UNCHANGED otherThanVideoGen

\* ExtendVideo for a path that does not exist: createNewVideo
ExtendVideoCreate ==
    /\ vgSessions < MaxExtends
    /\ \E videoPath \in VideoPaths, frames \in FrameLists :
         /\ Len(frames) # 0
         /\ vgVideos[videoPath] = NoFile
         /\ vgFrames' = frames
         /\ vgSessions' = SessionsAfter(frames, vgSessions)
         /\ vgSessionDirs' = RemoveAll(MkdirAll(vgSessionDirs))
         /\ IF imageFiles(frames) = <<>>
              THEN /\ vgReturned' = ReturnError
                   /\ UNCHANGED <<vgVideos, vgEncoderRuns, vgCRF>>
              ELSE /\ vgEncoderRuns' = vgEncoderRuns + 1
                   /\ vgCRF' = qualityToCRF(vgQuality)
                   /\ \E encoderOK \in BOOLEAN :
                        IF encoderOK
                          THEN /\ vgVideos' = [vgVideos EXCEPT
                                                 ![videoPath] = Len(imageFiles(frames))]
                               /\ vgReturned' = ReturnNil
                          ELSE /\ vgReturned' = ReturnError
                               /\ UNCHANGED vgVideos
    /\ UNCHANGED vgQuality
    /\ UNCHANGED otherThanVideoGen

\* the step of appendToVideo that fails first, if any: the temporary video,
\* the concat list, the concat, the rename
AppendFailures == {"encode", "list", "concat", "rename", "none"}

\* ExtendVideo for a path that exists: appendToVideo encodes the images into a
\* temporary video, concatenates it to the video and renames the result
ExtendVideoAppend ==
    /\ vgSessions < MaxExtends
    /\ \E videoPath \in VideoPaths, frames \in FrameLists :
         /\ Len(frames) # 0
         /\ vgVideos[videoPath] # NoFile
         /\ vgFrames' = frames
         /\ vgSessions' = SessionsAfter(frames, vgSessions)
         /\ vgSessionDirs' = RemoveAll(MkdirAll(vgSessionDirs))
         /\ IF imageFiles(frames) = <<>>
              THEN /\ vgReturned' = ReturnError
                   /\ UNCHANGED <<vgVideos, vgEncoderRuns, vgCRF>>
              ELSE /\ vgCRF' = qualityToCRF(vgQuality)
                   /\ \E failsAt \in AppendFailures :
                        IF failsAt \in {"encode", "list"}
                          THEN /\ vgEncoderRuns' = vgEncoderRuns + 1
                               /\ vgReturned' = ReturnError
                               /\ UNCHANGED vgVideos
                          ELSE /\ vgEncoderRuns' = vgEncoderRuns + 2
                               /\ vgVideos' = [vgVideos EXCEPT ![videoPath] =
                                     VideoAfterAppend(@, Len(imageFiles(frames)),
                                                      failsAt # "concat",
                                                      failsAt # "rename")]
                               /\ vgReturned' = IF failsAt = "none"
                                                  THEN ReturnNil ELSE ReturnError
    /\ UNCHANGED vgQuality
    /\ UNCHANGED otherThanVideoGen

\* any call of ExtendVideo
ExtendVideo == ExtendVideoEarly \/ ExtendVideoCreate \/ ExtendVideoAppend

NextVideoGen == ExtendVideoEarly \/ ExtendVideoCreate \/ ExtendVideoAppend

\* qualityToCRF for any int
InitCRF ==
    /\ vgQuality \in GoInts
    /\ vgCRF = NoCRF
    /\ vgVideos = [p \in VideoPaths |-> NoFile]
    /\ vgSessions = 0
    /\ vgSessionDirs = 0
    /\ vgEncoderRuns = 0
    /\ vgFrames = <<>>
    /\ vgReturned = NoReturn

\* vg.qualityToCRF(config.Quality)
QualityToCRF ==
    /\ vgCRF = NoCRF
    /\ vgCRF' = qualityToCRF(vgQuality)
    /\ UNCHANGED <<vgVideos, vgSessions, vgSessionDirs, vgEncoderRuns, vgFrames,
                   vgReturned, vgQuality>>
    /\ UNCHANGED otherThanVideoGen

NextCRF == QualityToCRF

-----------------------------------------------------------------------------------------------------------------------------------------------------
(* SenriganHandler.streamMJPEG: the responders that stream one source *)

Responders == 1..MaxResponders

\* no responder is attached
IdleResponders == received = [r \in Responders |-> {}]

\* a source with a camera that produces a few frames, and the responders of
\* the clients that requested its stream
InitResponders ==
    /\ NewSource([frames |-> StreamedFrames, launches |-> FewLaunches])
    /\ received = [r \in Responders |-> {}]

\* one turn of the loop of streamMJPEG in responder r: case frame := <-frameChan
\* on the channel GetFrameChannel() returned, the one channel of the source,
\* and the frame is written to the client of r
StreamMJPEG ==
    /\ frameChan # <<>>
    /\ \E r \in Responders :
         received' = [received EXCEPT ![r] = @ \cup {Recv(frameChan).value}]
    /\ lastRecv' = Recv(frameChan).value
    /\ frameChan' = Recv(frameChan).rest
    /\ snapResult' = SnapNone
    /\ srcReturned' = NoReturn
    /\ UNCHANGED <<callerState, fwdPc, fwdItem, internalFrameChan, internalErrorChan,
                   errorChan, latestFrame, encoders, blockedErrSends, nextFrame,
                   delivered, lastEvicted>>
    /\ UNCHANGED <<captureVars, managerVars, framerVars, composerVars, videoGenVars>>

\* a started source, its encoder and forwarder, and the responders
NextResponders ==
    \/ SourceStart
    \/ EncEmit
    \/ FwdRecvFrame
    \/ FwdSend
    \/ StreamMJPEG

-----
(* Specifications *)

InitOfCapture ==
    /\ InitCapture
    /\ InitManager
    /\ devices = {}
    /\ IdleFramer
    /\ IdleSource
    /\ IdleComposer
    /\ IdleVideoGen
    /\ IdleResponders

SpecCapture == InitOfCapture /\ [][NextCapture]_vars

\* The Go scheduler runs every runnable goroutine, a mutex that is free again
\* and again is eventually won by each waiter, ExtendVideo (a synchronous
\* encoder run) returns, and the 3 s timer of Stop fires.
FairSpecCapture ==
    /\ SpecCapture
    /\ WF_vars(CapAppend)
    /\ WF_vars(CapExit)
    /\ WF_vars(SchedInit)
    /\ WF_vars(SchedExit)
    /\ SF_vars(SchedUpdateLock)
    /\ WF_vars(SchedExtendOK \/ SchedExtendFail)
    /\ SF_vars(SchedRotateLock)
    /\ SF_vars(CaptureStopLock)
    /\ WF_vars(CaptureStopDone \/ CaptureStopTimeout)

InitOfManager ==
    /\ InitManager
    /\ InitCapture
    /\ IdleFramer
    /\ IdleSource
    /\ IdleComposer
    /\ IdleVideoGen
    /\ IdleResponders

SpecManager == InitOfManager /\ [][NextManager]_vars

\* The Go scheduler runs every runnable goroutine and a mutex that is free again
\* and again is eventually won by each waiter; a select whose stop case is ready
\* eventually takes it.
FairSpecManager ==
    /\ SpecManager
    /\ SF_vars(BgScan)
    /\ SF_vars(BgExit)
    /\ SF_vars(MgrStopLock)
    /\ WF_vars(MgrStopFinish)

\* the registry under AddVideoSource, RemoveVideoSource and discover calls on
\* a machine whose wall clock may be set back
NextWallClock ==
    \/ DeviceChange
    \/ DiscoverCameras
    \/ AddVideoSource
    \/ RemoveVideoSource
    \/ ClockSetBack

SpecWallClock == InitOfManager /\ [][NextWallClock]_vars

InitOfResponders ==
    /\ InitResponders
    /\ InitCapture
    /\ InitManager /\ devices = {}
    /\ IdleFramer
    /\ IdleComposer
    /\ IdleVideoGen

SpecResponders == InitOfResponders /\ [][NextResponders]_vars

InitOfFramer ==
    /\ InitFramer
    /\ InitCapture
    /\ InitManager
    /\ devices = {}
    /\ IdleSource
    /\ IdleComposer
    /\ IdleVideoGen
    /\ IdleResponders

SpecFramer == InitOfFramer /\ [][NextFramer]_vars

InitOfSource ==
    /\ InitSource
    /\ InitCapture
    /\ InitManager
    /\ devices = {}
    /\ IdleFramer
    /\ IdleComposer
    /\ IdleVideoGen
    /\ IdleResponders

SpecSource == InitOfSource /\ [][NextSource]_vars

InitOfComposer ==
    /\ InitComposer
    /\ InitCapture
    /\ InitManager
    /\ devices = {}
    /\ IdleFramer
    /\ IdleSource
    /\ IdleVideoGen
    /\ IdleResponders

SpecComposer == InitOfComposer /\ [][NextComposer]_vars

InitOfLayout ==
    /\ InitLayout
    /\ InitCapture
    /\ InitManager
    /\ devices = {}
    /\ IdleFramer
    /\ IdleSource
    /\ IdleVideoGen
    /\ IdleResponders

SpecLayout == InitOfLayout /\ [][NextLayout]_vars

InitOfVideoGen ==
    /\ InitVideoGen
    /\ InitCapture
    /\ InitManager
    /\ devices = {}
    /\ IdleFramer
    /\ IdleSource
    /\ IdleComposer
    /\ IdleResponders

SpecVideoGen == InitOfVideoGen /\ [][NextVideoGen]_vars

InitOfCRF ==
    /\ InitCRF
    /\ InitCapture
    /\ InitManager
    /\ devices = {}
    /\ IdleFramer
    /\ IdleSource
    /\ IdleComposer
    /\ IdleResponders

SpecCRF == InitOfCRF /\ [][NextCRF]_vars

-----------------------------------------------------------------------------
(* Claims about timelapse.Capture *)

\* C1: Capture.Stop returns to its caller from every reachable state: once it
\* has been called it eventually returns, also while the scheduler goroutine is
\* in a flush or a midnight rotation.
C1_StopReturns == (stopPc = "lock") ~> (stopPc = "returned")

\* C2: when the midnight timer has fired and rotateVideo starts with a non-empty
\* frame buffer, the rotation completes: the scheduler is back in its select
\* loop with the buffer flushed, current-video named after the new date and the
\* midnight timer re-armed.
C2_RotationCompletes ==
    (schedPc = "rotate_lock" /\ frameBuffer # <<>>)
        ~> (schedPc = "select" /\ midnightTimer # "unarmed"
              /\ currentVideo # NoVideo)

\* a flush whose ExtendVideo call succeeded returns: frames reached a file
FlushSucceeds == schedPc = "extending" /\ schedPc' = "select" /\ videoFiles' # videoFiles

\* a flush whose ExtendVideo call failed returns: no file was written
FlushFails == schedPc = "extending" /\ schedPc' = "select" /\ videoFiles' = videoFiles

NothingWritten == \A d \in Days : videoFiles[d] = <<>>

\* C14: whenever the frame buffer can be observed its length is at most
\* max-frame-buffer, under every interleaving of capture ticks, successful and
\* failed flushes and rotations.
C14_BufferBounded == Len(frameBuffer) <= MaxFrameBuffer

\* C14 witness: the buffer is full, observable, a frame has been evicted from
\* it and a flush or rotation has named the current video.
C14_Witness ==
    /\ tcMu = "none"
    /\ Len(frameBuffer) = MaxFrameBuffer
    /\ evicted # {}
    /\ currentVideo # NoVideo

\* C15: right after every successful flush the frame buffer is empty, and the
\* last-update timestamp never decreases.
C15_FlushEmptiesBuffer ==
    [][(FlushSucceeds => frameBuffer' = <<>>) /\ (lastUpdate' >= lastUpdate)]_vars

\* C15 witness: a flush succeeded on the last day, after frames had been
\* written before, and left the buffer empty.
C15_Witness ==
    /\ schedPc = "select"
    /\ frameBuffer = <<>>
    /\ lastUpdate = MaxDays
    /\ Len(videoFiles[1]) >= 2

\* C16: a flush that fails leaves the frame buffer holding exactly the frames
\* it held and leaves last-update unchanged, so the next flush retries them.
C16_FailedFlushKeepsBuffer ==
    [][FlushFails => (frameBuffer' = frameBuffer /\ lastUpdate' = lastUpdate)]_vars

\* C16 witness: the first flush, of a full buffer, has failed: nothing was
\* written, nothing was evicted, and the buffer is still full.
C16_Witness ==
    /\ schedPc = "select"
    /\ today = 1
    /\ currentVideo # NoVideo
    /\ NothingWritten
    /\ evicted = {}
    /\ Len(frameBuffer) = MaxFrameBuffer

\* C17 as stated: after a failed flush the current-video name is the one the
\* flush found when it started, also for the first flush after Start.
C17_FailedFlushKeepsName ==
    [][FlushFails => currentVideo' = flushStartName]_vars

\* C17, amended: a failed flush that found a current-video name leaves that
\* name; a failed flush that found none (the first flush after Start) leaves
\* the name it generated for the date on which it started.
C17_FailedFlushKeepsSetName ==
    [][FlushFails =>
          /\ (flushStartName # NoVideo) => (currentVideo' = flushStartName)
          /\ (flushStartName = NoVideo) =>
                (currentVideo' # NoVideo /\ FileDay(currentVideo') <= today)]_vars

\* C17 witness: the first flush after Start failed and the name it generated
\* is the current video, although no file has been written.
C17_Witness ==
    /\ schedPc = "select"
    /\ tcMu = "none"
    /\ today = 1
    /\ lastUpdate = 0
    /\ NothingWritten
    /\ currentVideo = generateVideoFilename(1)
    /\ frameBuffer # <<>>

\* the frames captureFrame has appended so far
Appended == (1..tlNext) \ {capFrame}

\* how many times frame f occurs in the buffer, in the files and among the
\* evicted frames
Occurrences(f) ==
    Cardinality({i \in 1..Len(frameBuffer) : frameBuffer[i] = f})
    + Cardinality({p \in Days \X (1..tlNext) :
                      p[2] <= Len(videoFiles[p[1]]) /\ videoFiles[p[1]][p[2]] = f})
    + (IF f \in evicted THEN 1 ELSE 0)

\* C18: while a flush is between handing the buffer to the extender and
\* truncating it no append happens, and every captured frame is in exactly one
\* place: written once by a successful flush, still in the buffer, or evicted
\* by FIFO overflow.
C18_FlushSerialised ==
    /\ [](\A f \in Appended : Occurrences(f) = 1)
    /\ [][(schedPc = "extending") =>
             (frameBuffer' = frameBuffer \/ (FlushSucceeds /\ frameBuffer' = <<>>))]_vars

\* C18 witness: a frame was evicted, later frames were written by a flush, and
\* a frame captured after that flush is in the buffer.
C18_Witness ==
    /\ evicted # {}
    /\ ~NothingWritten
    /\ frameBuffer # <<>>
    /\ schedPc = "select"

\* C19 as stated: on a started Capture the current-video name GetStatus reports
\* is the file the next flush would extend, and frame-buffer-size is the live
\* buffer length.
C19_StatusNamesNextFlush ==
    (startPc = "done" /\ tcMu = "none") =>
        /\ GetStatus(currentVideo, frameBuffer, lastUpdate).CurrentVideo
              = FlushTarget(currentVideo, today)
        /\ GetStatus(currentVideo, frameBuffer, lastUpdate).FrameBufferSize
              = Len(frameBuffer)

\* C19, amended: frame-buffer-size is the live buffer length; the reported
\* current-video name, once set, is the file the next flush extends; it is
\* empty only while no flush has succeeded, and then the next flush extends the
\* file named after the date of that flush.
C19_StatusNamesNextFlushOnceSet ==
    (startPc = "done" /\ tcMu = "none") =>
        LET st == GetStatus(currentVideo, frameBuffer, lastUpdate)
        IN  /\ st.FrameBufferSize = Len(frameBuffer)
            /\ (st.CurrentVideo # NoVideo) =>
                  (st.CurrentVideo = FlushTarget(currentVideo, today))
            /\ (st.CurrentVideo = NoVideo) =>
                  /\ lastUpdate = 0
                  /\ NothingWritten
                  /\ FlushTarget(currentVideo, today) = generateVideoFilename(today)

\* C19 witness: the date has changed, the status still names the file of the
\* day before, frames are waiting and the next flush extends that file.
C19_Witness ==
    /\ startPc = "done"
    /\ tcMu = "none"
    /\ today = 2
    /\ currentVideo = generateVideoFilename(1)
    /\ frameBuffer # <<>>


-----------------------------------------------------------------------------
(* Claims about camera.DefaultCameraManager *)

\* C3: Manager.Stop, once called, eventually returns under every interleaving
\* with backgroundScan, and when it has returned the rediscovery goroutine has
\* exited and the registry holds no source that is still running.
C3_ManagerStopReturns ==
    (mgrStopPc = "lock")
        ~> (mgrStopPc = "returned" /\ bgPc \in {"none", "done"}
              /\ \A i \in DOMAIN videoSources : videoSources[i].status # StatusActive)

\* the ids of the registered USB sources, and of the screen sources
USBSources(reg) == {i \in DOMAIN reg : reg[i].type = SourceTypeUSBCamera}
ScreenSources(reg) == {i \in DOMAIN reg : reg[i].type = SourceTypeX11Screen}

\* one USB source per path of devs, no other USB source, one screen source
Reconciled(reg, devs) ==
    /\ {reg[i].device : i \in USBSources(reg)} = devs
    /\ \A i, j \in USBSources(reg) : (reg[i].device = reg[j].device) => (i = j)
    /\ Cardinality(ScreenSources(reg)) = 1

\* a rediscovery pass: the explicit discover call or the background one
RediscoveryPass == DiscoverCameras \/ BgScan

\* C11: on a started manager, right after a rediscovery pass over the device
\* set D, the device paths of the registered USB sources are exactly D with one
\* source per path, and the registry holds exactly one screen source, whatever
\* start, add, remove and discover operations came before.
C11_RediscoveryReconciles ==
    [][(RediscoveryPass /\ mgrStartPc = "done" /\ mgrStopPc = "idle" /\ bgPc # "none")
          => Reconciled(videoSources, devices)']_vars

DiscoverChangesNothing ==
    \A ok \in [Unregistered(videoSources, devices) -> BOOLEAN] :
        performDiscovery(videoSources, nanoClock, devices, ok).reg = videoSources

-----------------------------------------------------------------------------
(* Claims about the JPEG framing loop *)

StartsWith(frame, marker) ==
    Len(frame) >= Len(marker) /\ SubSeq(frame, 1, Len(marker)) = marker

EndsWith(frame, marker) ==
    /\ Len(frame) >= Len(marker)
    /\ SubSeq(frame, Len(frame) - Len(marker) + 1, Len(frame)) = marker

\* C5: every frame the framer emits begins with FF D8 and ends with FF D9, for
\* every input stream and every way it is split into reads (so no byte that
\* precedes a start-of-image marker is part of a frame).
C5_FramesAreJPEGs ==
    \A i \in 1..Len(emitted) :
        StartsWith(emitted[i], SOI) /\ EndsWith(emitted[i], EOI)

\* C6: the frames emitted for a byte stream do not depend on how the stream is
\* split across reads: once the whole stream has been read, the emitted frames
\* are the ones a single read of the whole stream yields.
C6_SplitIndependent ==
    (readerPc = "eof") => (emitted = ScanFrames(stream, <<>>).frames)

-----------------------------------------------------------------------------
(* Claims about camera.USBCameraSource *)

Frames == 1..(nextFrame - 1)

Pending(ch) == {ch[i] : i \in 1..Len(ch)}

\* C4: when a stop of a video source has returned (the status is inactive and
\* no start, stop or apply-settings call is in progress), no encoder process
\* the source launched is still running; in particular after start; stop;
\* start; stop.
C4_StopKillsEncoders ==
    (srcStatus = StatusInactive /\ srcMu = "none") => NoEncoders(encoders)

\* C7 as stated: a successful snapshot returns only a frame that had already
\* been placed on the public frame channel before the call.
C7_SnapshotWasDelivered ==
    (snapResult \in Frames) => (snapResult \in delivered)

\* C7, amended: a successful snapshot returns a frame the forwarder has taken
\* from the encoder's channel, and no frame placed on the public frame channel
\* before the call is newer than it; the returned frame itself need not have
\* been placed on the channel.
C7_SnapshotIsLatestTaken ==
    (snapResult \in Frames) =>
        /\ snapResult \notin Pending(internalFrameChan)
        /\ \A f \in delivered : f <= snapResult

\* C7 witness: a snapshot has just returned a frame that is not, or not yet, on
\* the public channel although older frames were delivered.
C7_Witness ==
    /\ snapResult \in Frames
    /\ snapResult \notin delivered
    /\ delivered # {}

\* C8: once a consumer has received frame F from the public frame channel,
\* every later successful snapshot returns F or a frame the forwarder processed
\* after F, never an older one.
C8_SnapshotNotOlderThanReceived ==
    (snapResult \in Frames /\ lastRecv # NoFrame) => (snapResult >= lastRecv)

\* C8 witness: a consumer received a frame and a later snapshot has just
\* returned a newer one.
C8_Witness ==
    /\ lastRecv # NoFrame
    /\ snapResult \in Frames
    /\ snapResult > lastRecv

\* C9: the forwarder never waits for a consumer: after the non-blocking drop
\* its second send always has room; what it drops is older than everything left
\* pending, the pending frames stay in emission order, and a frame it has
\* enqueued is the newest element of the channel.
C9_ForwarderDropsOldest ==
    /\ (fwdPc = "resend") => CanSend(frameChan, FrameChanCap)
    /\ \A i \in 1..Len(frameChan) :
          /\ frameChan[i] > lastEvicted
          /\ \A j \in 1..Len(frameChan) : (i < j) => (frameChan[i] < frameChan[j])
    /\ (frameChan # <<>>) => (\A f \in delivered : f <= frameChan[Len(frameChan)])

\* C9 witness: the channel was full, the forwarder dropped the oldest frame and
\* enqueued the frame it had just stored, which is now the newest element.
C9_Witness ==
    /\ lastEvicted # NoFrame
    /\ fwdPc = "select"
    /\ Len(frameChan) = FrameChanCap
    /\ frameChan[Len(frameChan)] = latestFrame

ObservedStatus == IF srcMu = "apply" THEN StatusActive ELSE srcStatus

sourceState == <<workload, srcStatus, srcSettings, srcMu, srcStopClosed, fwdPc, fwdItem,
                 internalFrameChan, internalErrorChan, frameChan, errorChan,
                 latestFrame, encoders, blockedErrSends, nextFrame, launched,
                 lastRecv, delivered, lastEvicted>>

C22_ActiveHasEncoder == (srcStatus = StatusActive) => ~NoEncoders(encoders)

-----------------------------------------------------------------------------
(* Claims about timelapse.FrameComposer *)

\* the source of compSources a placement shows
PlacedSource(p) == CHOOSE src \in compSources : src.ID = p.ID

\* placement p is in an earlier cell than placement q (row by row)
EarlierCell(p, q) ==
    \/ p.Pos.Y < q.Pos.Y
    \/ p.Pos.Y = q.Pos.Y /\ p.Pos.X < q.Pos.X

\* source a comes before source b in ascending name order, ties by ascending id
NameThenID(a, b) ==
    \/ a.Name < b.Name
    \/ a.Name = b.Name /\ a.ID < b.ID

\* every decodable snapshot is drawn once, and the cells follow the order of
\* (name, id); nothing is drawn when no snapshot was collected
PlacedInNameIDOrder ==
    /\ (compReturned = ReturnError) => (compMosaic = NoMosaic)
    /\ (compReturned = ReturnNil) =>
          {p.ID : p \in compMosaic} = {src.ID : src \in {t \in compSources : t.Data = DataJPEG}}
    /\ \A p, q \in compMosaic :
         /\ p.ID = q.ID => p = q
         /\ p # q => (EarlierCell(p, q) <=> NameThenID(PlacedSource(p), PlacedSource(q)))

\* C23: composition is deterministic in the source set.  Composing the same set
\* of (name, id, snapshot) triples again, in any order of the slice and any
\* iteration order of the map, draws the same mosaic, and the sources are laid
\* out in ascending name order with ties broken by ascending id.
C23_CompositionDeterministic ==
    [][ComposeFrames =>
         /\ (compMosaic # NoMosaic) => (compMosaic' = compMosaic)
         /\ PlacedInNameIDOrder']_vars

\* C23 witness: a frame was combined from two sources of one name and a third
\* source of a smaller name and a larger id, all three drawn
C23_Witness ==
    /\ compMosaic # NoMosaic
    /\ \E a, b, c \in compSources :
         /\ a.Name = b.Name /\ a.ID < b.ID
         /\ c.Name < a.Name /\ c.ID > b.ID
         /\ {a.ID, b.ID, c.ID} \subseteq {p.ID : p \in compMosaic}

\* the cells of the grid a layout describes, as positions
GridCells(layout) ==
    {[X |-> c * layout.CellWidth, Y |-> r * layout.CellHeight,
      Width |-> layout.CellWidth, Height |-> layout.CellHeight] :
        c \in 0..(layout.Cols - 1), r \in 0..(layout.Rows - 1)}

\* C24: the layout of n >= 1 snapshots is (1,1) for n = 1, (2,1) for n = 2,
\* (2,2) for n in {3,4}, and otherwise cols = floor(0.6 n) + 1 and
\* rows = ceil(n / cols) (4 columns and 2 rows for n = 5); cols * rows >= n;
\* snapshot i lies at column i mod cols and row i div cols, so the snapshots
\* lie in distinct cells of the grid.
C24_LayoutAndPositions ==
    (layInfo # NoLayout) =>
      LET n == layFrameCount
          cols == layInfo.Cols
          rows == layInfo.Rows
      IN  /\ (n = 1) => (cols = 1 /\ rows = 1)
          /\ (n = 2) => (cols = 2 /\ rows = 1)
          /\ (n \in {3, 4}) => (cols = 2 /\ rows = 2)
          /\ (n = 5) => (cols = 4 /\ rows = 2)
          /\ (n > 4) => /\ 10 * (cols - 1) <= 6 * n
                        /\ 6 * n < 10 * cols
                        /\ (rows - 1) * cols < n
                        /\ n <= rows * cols
          /\ cols * rows >= n
          /\ (layIndex >= 0) =>
               /\ layPos.X = (layIndex % cols) * layInfo.CellWidth
               /\ layPos.Y = (layIndex \div cols) * layInfo.CellHeight
               /\ layPos \in GridCells(layInfo)
          /\ \A i, j \in 0..(n - 1) :
               (i # j) => calculatePosition(i, layInfo) # calculatePosition(j, layInfo)
          /\ \A i \in 0..(n - 1) : calculatePosition(i, layInfo) \in GridCells(layInfo)

\* C24 witness: the last of five snapshots was placed, in the second row of a
\* grid of four columns
C24_Witness ==
    /\ layFrameCount = 5
    /\ layInfo # NoLayout
    /\ layIndex = 4
    /\ layPos.Y > 0

-----------------------------------------------------------------------------
(* Claims about timelapse.VideoGenerator *)

\* C25: ExtendVideo called with an empty frame list returns success and neither
\* creates nor modifies a video file, creates no session temp directory and
\* runs no encoder.
C25_EmptyExtendIsNoOp ==
    [][(ExtendVideo /\ vgFrames' = <<>>) =>
         /\ vgReturned' = ReturnNil
         /\ UNCHANGED <<vgVideos, vgSessions, vgEncoderRuns, vgCRF>>]_vars

\* C25 witness: ExtendVideo has just returned from a call with no frames, after
\* earlier calls that had frames, while some video does not exist
C25_Witness ==
    /\ vgFrames = <<>>
    /\ vgReturned = ReturnNil
    /\ vgSessions > 0
    /\ \E videoPath \in VideoPaths : vgVideos[videoPath] = NoFile

\* clamp(28 - 2.5 (quality - 1), 18, 28), in tenths
ClampedCRF(quality) ==
    LET crf == 280 - 25 * (quality - 1)
    IN  IF crf < 180 THEN 180 ELSE IF crf > 280 THEN 280 ELSE crf

\* C26: for every integer quality the CRF string is
\* clamp(28 - 2.5 (quality - 1), 18, 28) with one decimal; qualities 0, 1, 5, 6
\* give 28.0, 28.0, 18.0, 18.0; the value lies within [18, 28] and is
\* non-increasing in quality.
C26_QualityToCRF ==
    (vgCRF # NoCRF) =>
      /\ vgCRF = <<ClampedCRF(vgQuality) \div 10, ClampedCRF(vgQuality) % 10>>
      /\ (vgQuality \in {0, 1}) => (vgCRF = <<28, 0>>)
      /\ (vgQuality \in {5, 6}) => (vgCRF = <<18, 0>>)
      /\ 180 <= vgCRF[1] * 10 + vgCRF[2] /\ vgCRF[1] * 10 + vgCRF[2] <= 280
      /\ \A q \in GoInts :
           (q < vgQuality) =>
              LET other == qualityToCRF(q)
              IN  other[1] * 10 + other[2] >= vgCRF[1] * 10 + vgCRF[2]

-----------------------------------------------------------------------------
(* Claims about adding and rediscovering sources in camera.DefaultCameraManager *)

\* the ids an operation has just registered
NewlyRegistered == DOMAIN videoSources' \ DOMAIN videoSources

\* C27: adding a video source for a device path that discovery reports as
\* unavailable leaves the registry unchanged: AddVideoSource registers no
\* source whose device is not among the reported devices.
C27_AddUnavailableRejected ==
    [][AddVideoSource =>
         \A id \in NewlyRegistered : videoSources'[id].device \in devices]_vars

\* C28: no two registered sources have the same device path, whatever
\* sequence of add, remove and discover operations ran.
C28_NoDuplicateDevice ==
    \A i, j \in DOMAIN videoSources :
        (videoSources[i].device = videoSources[j].device) => (i = j)

-----------------------------------------------------------------------------
(* Claims about the settings of camera.USBCameraSource *)

\* the frame rates validateSettings accepts
ValidFrameRates == 1..60

\* C29: applying settings with an invalid frame rate returns an error and
\* leaves the stored settings, the encoders and the status as they were: no
\* ApplySettings step stores a frame rate outside 1..60.
C29_InvalidSettingsRejected ==
    [][SourceApplySettings =>
         \/ srcSettings' \in ValidFrameRates
         \/ /\ srcSettings' = srcSettings
            /\ srcStatus' = srcStatus
            /\ srcReturned' = ReturnError]_vars

-----------------------------------------------------------------------------
(* Claims about restarting camera.USBCameraSource *)

\* the encoder processes feeding the source are exactly one, parameterised by
\* the frame rate rate
OnlyEncoder(enc, rate) ==
    \A r \in FrameRates : enc[r] = (IF r = rate THEN 1 ELSE 0)

\* C31: when ApplySettings returns on a source that was active, the source is
\* active, one forwarder is running, and exactly one encoder process, the one
\* parameterised by the new settings, feeds the source; the encoder started
\* with the old settings has been terminated.
C31_ApplyReplacesEncoder ==
    [][SourceApplyRestart =>
         /\ srcStatus' = StatusActive
         /\ fwdPc' # "none"
         /\ OnlyEncoder(encoders', srcSettings')]_vars

\* C32: the public frame channel is never closed, and when Stop returns it
\* holds no frame produced during the run that was stopped (it has been drained
\* or replaced), so a consumer attached after a restart never receives a frame
\* from before the stop.
C32_StopDrainsFrameChannel ==
    [][SourceStopEnd => frameChan' = <<>>]_vars

-----------------------------------------------------------------------------
(* Claims about the snapshots timelapse.FrameComposer collects *)

\* the sources that are active and whose snapshot succeeds with at least one byte
Yielding(sources) ==
    {src \in sources : /\ src.Status = StatusActive
                       /\ src.Data \notin {DataError, DataEmpty}}

\* C33: ComposeFrames returns an error exactly when no active source yields a
\* non-empty snapshot; otherwise it succeeds and the source-frames map of the
\* combined frame holds exactly the active sources whose snapshot succeeded
\* with non-empty bytes: sources that are not active and snapshots that fail
\* are skipped and never abort the composition.
C33_ComposeSkipsFailures ==
    [][ComposeFrames =>
         /\ (compReturned' = ReturnError) <=> (Yielding(compSources) = {})
         /\ (compReturned' # ReturnError) =>
               /\ compReturned' = ReturnNil
               /\ compFrames' = {src.ID : src \in Yielding(compSources)}]_vars

\* C33 witness: a composition has succeeded over an inactive source, an active
\* source whose snapshot failed and an active source that delivered a frame,
\* and the combined frame holds the frame of the last one only
C33_Witness ==
    /\ compReturned = ReturnNil
    /\ \E a, b, c \in compSources :
         /\ a.Status = StatusInactive
         /\ b.Status = StatusActive /\ b.Data = DataError
         /\ c.Status = StatusActive /\ c.Data = DataJPEG
         /\ compFrames = {c.ID}

-----------------------------------------------------------------------------
(* Claims about appending to a video in timelapse.VideoGenerator *)

-----------------------------------------------------------------------------
(* Claims about the order of the frames of camera.USBCameraSource *)

\* C35: the frames consumers receive from the public frame channel are a
\* subsequence of the frames sent by the encoder, in the order they were sent:
\* every frame received was sent by the encoder and is newer than every frame
\* received before it, so evicting the oldest frame of a full channel removes
\* frames but never reorders or duplicates them.
C35_ReceivedInEmissionOrder ==
    [][ConsumeFrame => (lastRecv' \in Frames /\ lastRecv' > lastRecv)]_vars

\* C35 witness: a consumer has received a frame that is newer than a frame the
\* forwarder evicted from the full channel, while later frames are pending
C35_Witness ==
    /\ lastEvicted # NoFrame
    /\ lastRecv > lastEvicted
    /\ frameChan # <<>>
    /\ srcStatus = StatusActive

-----------------------------------------------------------------------------
(* Claims about the ids of camera.DefaultCameraManager *)

\* C36: every video source created gets an id different from the id of every
\* other source, so registering a newly created source never overwrites an
\* entry of the registry: AddVideoSource adds a key, and neither it nor a
\* discover call changes the source an id that stays registered stands for.
C36_CreatedIDsAreFresh ==
    [][(AddVideoSource \/ DiscoverCameras) =>
         /\ AddVideoSource => (DOMAIN videoSources' # DOMAIN videoSources)
         /\ \A id \in DOMAIN videoSources \cap DOMAIN videoSources' :
               videoSources'[id] = videoSources[id]]_vars

-----------------------------------------------------------------------------
(* Claims about workers that outlive Capture.Stop *)

\* C37: Capture.Stop can return, through its 3 s timeout or the cancellation of
\* its ctx, while a worker goroutine is blocked on the mutex Stop holds.  Such a
\* worker is not cancelled: after Stop has returned, the capture worker that
\* waited for the mutex appends its frame to the buffer, and the scheduler that
\* waited for it runs its flush when the buffer is not empty, so the buffer and
\* the output file can still change after Stop.
C37_WorkersOutliveStop ==
    [][(stopPc = "returned") =>
         /\ (capPc = "lock" /\ capPc' # capPc) =>
               /\ capPc' = "select"
               /\ capFrame \in FramesOf(frameBuffer')
         /\ (schedPc = "update_lock" /\ schedPc' # schedPc /\ frameBuffer # <<>>) =>
               /\ schedPc' = "extending"
               /\ tcMu' = "sched"]_vars

\* C37 witness: Stop has returned with both workers still running: the flush
\* that waited for the mutex took it after Stop released it and is writing the
\* buffer to the file, and the capture worker waits for the mutex with a frame
C37_Witness ==
    /\ stopPc = "returned"
    /\ tcStopCh
    /\ schedPc = "extending"
    /\ tcMu = "sched"
    /\ frameBuffer # <<>>
    /\ capPc = "lock"
    /\ capFrame > 1

-----------------------------------------------------------------------------
(* Claims about concurrent MJPEG responders *)

\* C38: each frame placed on a source's public frame channel is received by at
\* most one consumer: responders that stream the same source concurrently
\* compete for the frames, which are partitioned among them; no frame reaches
\* two responders.
C38_FramesPartitioned ==
    \A r1, r2 \in Responders :
        (r1 # r2) => (received[r1] \cap received[r2] = {})

\* C38 witness: every frame the camera produced was placed on the channel and
\* received, each of two responders received some of them and neither got all
C38_Witness ==
    /\ delivered = 1..StreamedFrames
    /\ frameChan = <<>>
    /\ UNION {received[r] : r \in Responders} = delivered
    /\ \E r1, r2 \in Responders :
         /\ r1 # r2
         /\ received[r1] # {}
         /\ received[r2] # {}

-----------------------------------------------------------------------------
(* Claims about the latest-frame cell of camera.USBCameraSource *)

\* C39: Stop does not clear the latest-frame cell.  Only the forwarder writes
\* the cell, so once a frame has been stored the cell is never empty again;
\* right after a successful Start that follows a Stop a snapshot returns the
\* frame stored before the Stop, and it does so until the forwarder stores the
\* first frame of the new run; the no-frame-yet error is returned only before
\* the first frame ever stored.
C39_StopKeepsLatestFrame ==
    [][/\ (latestFrame # NoFrame) => (latestFrame' # NoFrame)
       /\ (latestFrame' # latestFrame) => (fwdPc = "select" /\ fwdPc' = "deliver")
       /\ (SourceStart /\ srcStatus' = StatusActive /\ latestFrame # NoFrame) =>
             (SnapshotResult(srcStatus', latestFrame') = latestFrame)
       /\ (Snapshot /\ srcStatus = StatusActive) =>
             (snapResult' = IF latestFrame = NoFrame THEN SnapError ELSE latestFrame)]_vars

\* C39 witness: the second Start of a source has just returned nil, after a
\* Stop (the settings were never changed), and the cell holds a frame, stored
\* before that Stop since no forwarder ran in between
C39_Witness ==
    /\ srcReturned = ReturnNil
    /\ srcStatus = StatusActive
    /\ srcSettings = DefaultFrameRate
    /\ launched = 2
    /\ fwdPc = "select"
    /\ latestFrame # NoFrame

-----------------------------------------------------------------------------
(* Claims about rediscovery and sources whose Start failed *)

\* the device paths some source of the registry was created for
RegisteredDevices(reg) == {reg[i].device : i \in DOMAIN reg}

====
